---- MODULE Spec2Model ----
(***************************************************************************)
(* A model of the Aman analyzer pipeline (Support/analyzer_core).          *)
(*                                                                         *)
(* State: the detector instances an AnalyzerPipeline holds (their          *)
(* settings survive a call) and the process() calls in flight, each with   *)
(* its own PipelineContext.                                                *)
(*                                                                         *)
(* Numbers.  Python floats are modelled by exact integer arithmetic:       *)
(*   - timestamps are whole epoch seconds; an emitted ISO-8601 string with *)
(*     millisecond precision is modelled by its millisecond count;         *)
(*   - component scores and alert thresholds are in hundredths             *)
(*     (ScoreScale == 100 stands for 1.0);                                 *)
(*   - means are exact fractions [num, den]; a z-score v is kept as the    *)
(*     pair [num, den2] with v = num / sqrt(den2).                         *)
(* Not modelled: uuid4 identifiers and the wall-clock timestamp of alert   *)
(* events (fresh values, never read back by the code).                     *)
(***************************************************************************)
EXTENDS Integers, Sequences, FiniteSets, TLC

VARIABLES
    detectors,   \* detectors[p][id]: attributes of the detector instance `id` of pipeline p
    calls,       \* calls[t]: the process() call thread t is executing (with its
                 \* PipelineContext), or the response it has returned
    context,     \* a PipelineContext driven directly through merge_partial
    partials,    \* the payloads merged into `context`, in call order
    clusterInput,   \* an anomaly list for _build_clusters
    clusterOutput,  \* None, or Some(what _build_clusters returned for it)
    script,      \* the last run of analyzer.py: its stdin request and its outcome
    unit         \* a detector method called on its own: its arguments and its outcome

\* The variables of the pipeline, those of the context driven on its own, those
\* of _build_clusters called on its own, and all but each of these groups.
pipelineVars == <<detectors, calls>>
mergeVars == <<context, partials>>
clusterVars == <<clusterInput, clusterOutput>>
besideCalls == <<detectors, mergeVars, clusterVars, script, unit>>
besidePipeline == <<mergeVars, clusterVars, script, unit>>
besideMerge == <<pipelineVars, clusterVars, script, unit>>
besideClusters == <<pipelineVars, mergeVars, script, unit>>
besideScript == <<pipelineVars, mergeVars, clusterVars, unit>>
besideUnit == <<pipelineVars, mergeVars, clusterVars, script>>

vars == <<detectors, calls, context, partials, clusterInput, clusterOutput, script, unit>>

-----------------------------------------------------------------------------
(* Python values *)

\* None / a present value (Optional[...] attributes of PipelineContext).
None == << >>
Some(v) == <<v>>

\* {} and dict.update / {**a, **b}: later keys win, other keys are kept.
EmptyDict == [k \in {} |-> 0]
Update(d, o) == [k \in DOMAIN d \cup DOMAIN o |-> IF k \in DOMAIN o THEN o[k] ELSE d[k]]
Put(d, k, v) == [x \in DOMAIN d \cup {k} |-> IF x = k THEN v ELSE d[x]]
Get(d, k, default) == IF k \in DOMAIN d THEN d[k] ELSE default

\* A timestamp string datetime.fromisoformat rejects; a rate float() rejects.
BadTimestamp == -1
BadNumber == -1

\* Scores are kept in hundredths: 100 is the float 1.0.
ScoreScale == 100

Range(s) == {s[i] : i \in DOMAIN s}
Max(a, b) == IF a >= b THEN a ELSE b
Min(a, b) == IF a <= b THEN a ELSE b
Abs(a) == IF a >= 0 THEN a ELSE -a

\* sum(s), taken by halves so that a long list stays shallow.
RECURSIVE SumSeq(_)
SumSeq(s) ==
    IF Len(s) = 0 THEN 0
    ELSE IF Len(s) = 1 THEN s[1]
    ELSE SumSeq(SubSeq(s, 1, Len(s) \div 2)) + SumSeq(SubSeq(s, Len(s) \div 2 + 1, Len(s)))

\* sum(v * v for v in s), taken by halves.
RECURSIVE SumSq(_)
SumSq(s) ==
    IF Len(s) = 0 THEN 0
    ELSE IF Len(s) = 1 THEN s[1] * s[1]
    ELSE SumSq(SubSeq(s, 1, Len(s) \div 2)) + SumSq(SubSeq(s, Len(s) \div 2 + 1, Len(s)))

\* A slice that always starts at the first element.
SliceFromStart(s, a, b) == IF a > b THEN << >> ELSE SubSeq(s, 1, Min(b, Len(s)))

\* s[a..b] with Python's 0-based half-open slice s[a:b] being Slice(s, a+1, b).
Slice(s, a, b) == IF a > b THEN << >> ELSE SubSeq(s, Max(a, 1), Min(b, Len(s)))

\* list(dict.fromkeys(s)): duplicates removed, first occurrences kept in order.
RECURSIVE Dedupe(_)
Dedupe(s) ==
    IF s = << >> THEN << >>
    ELSE LET front == Dedupe(SubSeq(s, 1, Len(s) - 1))
             last == s[Len(s)]
         IN IF last \in Range(front) THEN front ELSE Append(front, last)

\* sorted(..., key=...) is stable: the indices of `keys` in ascending key order,
\* equal keys in their original order.
SortIdx(keys, rem) ==
    [r \in 1..Cardinality(rem) |->
        CHOOSE i \in rem :
            Cardinality({j \in rem : keys[j] < keys[i] \/ (keys[j] = keys[i] /\ j < i)}) = r - 1]

SortedBy(s, keys) == LET p == SortIdx(keys, DOMAIN keys) IN [i \in DOMAIN p |-> s[p[i]]]

\* Twice statistics.median of a non-empty list of integers (the median of an
\* even number of values is the mean of the two middle ones).
Median2(s) ==
    LET o == SortedBy(s, s)
        n == Len(o)
    IN IF n % 2 = 1 THEN 2 * o[(n + 1) \div 2] ELSE o[n \div 2] + o[n \div 2 + 1]

\* int(round(num / den)) for num >= 0, den > 0: Python rounds halves to even.
RoundDiv(num, den) ==
    LET q == num \div den
        r == num % den
    IN IF 2 * r < den THEN q
       ELSE IF 2 * r > den THEN q + 1
       ELSE IF q % 2 = 0 THEN q ELSE q + 1

-----------------------------------------------------------------------------
(* PipelineContext *)

NewContext ==
    [ result |-> EmptyDict,
      component_scores |-> << >>,
      reason_codes |-> << >>,
      seasonality_confidence |-> None,
      seasonality_payload |-> None,
      change_points |-> << >>,
      change_point_diagnostics |-> None,
      multivariate_scores |-> << >>,
      multivariate_diagnostics |-> None,
      new_talkers |-> << >>,
      new_talker_diagnostics |-> None,
      alert_events |-> << >>,
      alert_config |-> None ]

ListKeys == {"metrics", "baseline", "anomalies", "clusters"}

\* merge_partial storing every value under its key, whatever the key.
MergeKeyReplace(ctx, key, value) == [ctx EXCEPT !.result = Put(ctx.result, key, value)]

\* One iteration of merge_partial's loop: the rule of `key` applied to `value`.
MergeKey(ctx, key, value) ==
    LET res == ctx.result IN
    CASE key \in ListKeys ->
           [ctx EXCEPT !.result = Put(res, key, Get(res, key, << >>) \o value)]
      [] key = "summary" ->
           [ctx EXCEPT !.result = Put(res, key, value)]
      [] key \in {"settings", "payloadSummary"} ->
           [ctx EXCEPT !.result = Put(res, key, Update(Get(res, key, EmptyDict), value))]
      [] key = "seasonality" ->
           [ctx EXCEPT !.seasonality_payload = Some(value),
                       !.result = Put(res, key, value)]
      [] key = "changePoints" ->
           [ctx EXCEPT !.change_points = @ \o value,
                       !.result = Put(res, key, ctx.change_points \o value)]
      [] key = "changePointDiagnostics" ->
           [ctx EXCEPT !.change_point_diagnostics = Some(value),
                       !.result = Put(res, key, value)]
      [] key = "multivariateScores" ->
           [ctx EXCEPT !.multivariate_scores = @ \o value,
                       !.result = Put(res, key, ctx.multivariate_scores \o value)]
      [] key = "multivariateDiagnostics" ->
           [ctx EXCEPT !.multivariate_diagnostics = Some(value),
                       !.result = Put(res, key, value)]
      [] key = "newTalkers" ->
           [ctx EXCEPT !.new_talkers = @ \o value,
                       !.result = Put(res, key, ctx.new_talkers \o value)]
      [] key = "newTalkerDiagnostics" ->
           [ctx EXCEPT !.new_talker_diagnostics = Some(value),
                       !.result = Put(res, key, value)]
      [] key = "alerts" ->
           [ctx EXCEPT !.alert_events = @ \o value.events,
                       !.alert_config = Some(value.config),
                       !.result = Put(res, key, [events |-> ctx.alert_events \o value.events,
                                                 config |-> Some(value.config)])]
      [] OTHER ->
           [ctx EXCEPT !.result = Put(res, key, value)]

\* merge_partial: a payload is the sequence of its <<key, value>> items, in
\* the dict's insertion order.
RECURSIVE merge_partial(_, _)
merge_partial(ctx, payload) ==
    IF payload = << >> THEN ctx
    ELSE merge_partial(MergeKey(ctx, Head(payload)[1], Head(payload)[2]), Tail(payload))

\* add_score with the entry put in front of the list instead of appended.
add_score_front(ctx, detector, score, label, reasons) ==
    LET entry == [detector |-> detector, score |-> score, label |-> label,
                  reasonCodes |-> Dedupe(reasons)]
    IN [ctx EXCEPT !.reason_codes = @ \o entry.reasonCodes,
                   !.component_scores = <<entry>> \o @]

\* add_score; every caller in the code passes a label and a non-empty reason list.
add_score(ctx, detector, score, label, reasons) ==
    LET entry == [detector |-> detector, score |-> score, label |-> label,
                  reasonCodes |-> Dedupe(reasons)]
    IN [ctx EXCEPT !.reason_codes = @ \o entry.reasonCodes,
                   !.component_scores = Append(@, entry)]

\* serialize.  result["changePoints"], ["multivariateScores"], ["newTalkers"]
\* and ["alerts"]["events"] are the accumulator lists themselves (the same list
\* object), so they show whatever the accumulators hold when the call returns.
serialize(ctx, processing_latency_ms) ==
    LET aliased ==
            [k \in DOMAIN ctx.result |->
                CASE k = "changePoints" -> ctx.change_points
                  [] k = "multivariateScores" -> ctx.multivariate_scores
                  [] k = "newTalkers" -> ctx.new_talkers
                  [] k = "alerts" -> [events |-> ctx.alert_events, config |-> ctx.alert_config]
                  [] OTHER -> ctx.result[k]]
        r1 == IF ctx.change_points # << >> /\ "changePoints" \notin DOMAIN aliased
              THEN Put(aliased, "changePoints", ctx.change_points) ELSE aliased
        r2 == IF ctx.multivariate_scores # << >>
              THEN LET a == IF "multivariateScores" \notin DOMAIN r1
                            THEN Put(r1, "multivariateScores", ctx.multivariate_scores) ELSE r1
                   IN IF ctx.multivariate_diagnostics # None /\ "multivariateDiagnostics" \notin DOMAIN a
                      THEN Put(a, "multivariateDiagnostics", ctx.multivariate_diagnostics[1]) ELSE a
              ELSE r1
        r3 == IF ctx.new_talkers # << >>
              THEN LET a == IF "newTalkers" \notin DOMAIN r2
                            THEN Put(r2, "newTalkers", ctx.new_talkers) ELSE r2
                   IN IF ctx.new_talker_diagnostics # None /\ "newTalkerDiagnostics" \notin DOMAIN a
                      THEN Put(a, "newTalkerDiagnostics", ctx.new_talker_diagnostics[1]) ELSE a
              ELSE r2
        a0 == [ phase |-> "phase6.6",
                scores |-> ctx.component_scores,
                reasonCodes |-> Dedupe(ctx.reason_codes),
                seasonalityConfidence |-> ctx.seasonality_confidence,
                processingLatencyMs |-> processing_latency_ms ]
        a1 == IF ctx.seasonality_payload # None
              THEN Put(a0, "seasonality", ctx.seasonality_payload[1]) ELSE a0
        a2 == IF ctx.change_points # << >> THEN Put(a1, "changePoints", ctx.change_points) ELSE a1
        a3 == IF ctx.change_point_diagnostics # None
              THEN Put(a2, "changePointDiagnostics", ctx.change_point_diagnostics[1]) ELSE a2
        a4 == IF ctx.multivariate_scores # << >> \/ ctx.multivariate_diagnostics # None
              THEN Put(a3, "multivariate", [scores |-> ctx.multivariate_scores,
                                             diagnostics |-> ctx.multivariate_diagnostics])
              ELSE a3
        a5 == IF ctx.new_talkers # << >> \/ ctx.new_talker_diagnostics # None
              THEN Put(a4, "newTalkers", [entries |-> ctx.new_talkers,
                                           diagnostics |-> ctx.new_talker_diagnostics])
              ELSE a4
        a6 == IF ctx.alert_events # << >>
                 \/ (ctx.alert_config # None /\ DOMAIN ctx.alert_config[1] # {})
              THEN Put(a5, "alerts", [events |-> ctx.alert_events, config |-> ctx.alert_config])
              ELSE a5
    IN Put(r3, "advancedDetection", a6)

-----------------------------------------------------------------------------
(* Requests.  A metric sample is [timestamp, bytesPerSecond, tagMetrics]:      *)
(* packetsPerSecond and flowsPerSecond are absent (read as 0.0), and           *)
(* tagMetrics is the sequence of its [tagType, tagValue, bytes] entries in     *)
(* dict order.  A packet is [info, length].  Requests carry no "params", and   *)
(* the requests of the pipeline no "payloadConfig".                            *)

\* _parse_timestamp raises ValueError on a string it cannot parse.
TimestampOk(value) == value # BadTimestamp

\* float(m.get(key, 0.0)) raises on a non-numeric value.
NumberOk(value) == value # BadNumber

\* _isoformat: the UTC string with millisecond precision, as its millisecond count.
_isoformat(ts) == ts * 1000

\* What a detector's process() did: raised (with str(exc)) or returned `partial`;
\* `ctx` is the context as the detector left it either way.
Returned(ctx, partial) == [raised |-> FALSE, message |-> "", ctx |-> ctx, partial |-> partial]
Raised(ctx, message) == [raised |-> TRUE, message |-> message, ctx |-> ctx, partial |-> << >>]

\* [times[i+1] - times[i] for i in range(len(times) - 1)]
Diffs(times) == [i \in 1..(Len(times) - 1) |-> times[i + 1] - times[i]]

\* A mean kept exact: sum(values) / len(values).
Mean(values) == [num |-> SumSeq(values), den |-> Len(values)]

-----------------------------------------------------------------------------
(* LegacyAnomalyDetector *)

LegacyDefaults == [algorithm |-> "zscore", windowSeconds |-> 60, zThreshold |-> 3]

\* _sliding_baseline that leaves out the value of the last sample.
_sliding_baseline_short(values, window) ==
    [i \in 1..(Len(values) - 1) |-> [num |-> values[i], den |-> 1]]

\* _sliding_baseline
_sliding_baseline(values, window) ==
    [i \in DOMAIN values |-> Mean(Slice(values, Max(1, i - window + 1), i))]

\* n times the population variance: a deviation too small by sqrt(n).
VarN1(values) ==
    (Len(values) * SumSq(values) - SumSeq(values) * SumSeq(values)) \div Len(values)

\* n^2 times the population variance of integer values: n*sum(x^2) - sum(x)^2.
\* statistics.pstdev is 0 exactly when it is 0, and then the MAD fallback of
\* _rolling_stats is 0 as well (all values are equal).
VarN2(values) == Len(values) * SumSq(values) - SumSeq(values) * SumSeq(values)

\* (value - mean) / std over `window_values`, as [num, den2]: num / sqrt(den2).
ZScore(value, window_values) ==
    [num |-> Len(window_values) * value - SumSeq(window_values), den2 |-> VarN2(window_values)]

\* abs(z) >= threshold, for threshold >= 0
ZAtLeast(z, threshold) == z.num * z.num >= threshold * threshold * z.den2

\* abs(z) >= threshold on the float the quotient was rounded to: a rounding of
\* the last place decides the comparison only where the exact values are equal.
RoundedAtLeast(z, threshold) ==
    \/ z.num * z.num > threshold * threshold * z.den2
    \/ z.num * z.num = threshold * threshold * z.den2 /\ z.ulps >= 0

\* stats_fn: _rolling_stats_mad if algorithm == "mad" else _rolling_stats
StatsFn(algorithm) == IF algorithm = "mad" THEN "_rolling_stats_mad" ELSE "_rolling_stats"

\* Four times the median absolute deviation from the median.
Mad4(values) == Median2([i \in DOMAIN values |-> Abs(2 * values[i] - Median2(values))])

\* std > 1e-9 for (mean, std) = stats_fn(values): the population deviation
\* for _rolling_stats, 1.4826 * mad for _rolling_stats_mad.
ScalePositive(stats_fn, values) ==
    IF stats_fn = "_rolling_stats_mad" THEN Mad4(values) > 0 ELSE VarN2(values) > 0

\* The first value stats_fn returns, as [num, den]: the mean or the median.
Location(stats_fn, values) ==
    IF stats_fn = "_rolling_stats_mad" THEN [num |-> Median2(values), den |-> 2]
    ELSE Mean(values)

\* (value - mean) / std for (mean, std) = stats_fn(values).  With the median
\* and 1.4826 * mad = 7413 * Mad4 / 20000 the quotient is the fraction
\* [num, den]; with the mean and the deviation it is ZScore's [num, den2].
ZValue(stats_fn, value, values) ==
    IF stats_fn = "_rolling_stats_mad"
    THEN [num |-> 10000 * (2 * value - Median2(values)), den |-> 7413 * Mad4(values)]
    ELSE ZScore(value, values)

\* abs(z_score) >= threshold, for either form of z_score
Reaches(z, threshold) ==
    IF "den" \in DOMAIN z THEN Abs(z.num) >= threshold * z.den ELSE ZAtLeast(z, threshold)

\* _detect_anomalies.  idx is the 1-based position; the window is the
\* window_count values before it.
_detect_anomalies(timestamps, series, baseline, metric_name, threshold, window_count, stats_fn) ==
    LET Window(idx) == Slice(series, Max(1, idx - window_count), idx - 1)
        Emits(idx) == /\ Len(Window(idx)) >= 3
                      /\ ScalePositive(stats_fn, Window(idx))
                      /\ Reaches(ZValue(stats_fn, series[idx], Window(idx)), threshold)
        Entry(idx) == [ id |-> <<metric_name, "", idx>>,
                        timestamp |-> _isoformat(timestamps[idx]),
                        metric |-> metric_name,
                        value |-> series[idx],
                        baseline |-> baseline[idx],
                        zScore |-> ZValue(stats_fn, series[idx], Window(idx)),
                        direction |-> IF ZValue(stats_fn, series[idx], Window(idx)).num >= 0
                                      THEN "spike" ELSE "drop",
                        tagType |-> None,
                        tagValue |-> None ]
        hits == SelectSeq([i \in DOMAIN series |-> i], Emits)
    IN [k \in DOMAIN hits |-> Entry(hits[k])]

\* _ewma for alpha = alpha.num / alpha.den, every estimate multiplied by
\* alpha.den ^ (len(values) - 1) so that it stays whole; `scale` is the power
\* reached so far.
RECURSIVE EwmaFrom(_, _, _, _, _)
EwmaFrom(values, alpha, idx, estimate, scale) ==
    IF idx > Len(values) THEN << >>
    ELSE LET next == alpha.num * values[idx] * scale + (alpha.den - alpha.num) * estimate
         IN <<next>> \o EwmaFrom(values, alpha, idx + 1, next, scale * alpha.den)

\* alpha.den ^ n
RECURSIVE Power(_, _)
Power(base, n) == IF n = 0 THEN 1 ELSE base * Power(base, n - 1)

\* _ewma: baseline[i] = estimate[i] / alpha.den ^ (i - 1), returned over the
\* common denominator alpha.den ^ (len(values) - 1).
_ewma(values, alpha) ==
    IF values = << >> THEN << >>
    ELSE LET raw == <<values[1]>> \o EwmaFrom(values, alpha, 2, values[1], 1)
         IN [i \in DOMAIN values |-> raw[i] * Power(alpha.den, Len(values) - i)]

\* _detect_anomalies_ewma, for a baseline over the denominator `scale`: the
\* residuals are kept multiplied by `scale`, which leaves the score as it is.
_detect_anomalies_ewma(timestamps, series, baseline, scale, metric_name, threshold, window_count) ==
    LET residuals == [i \in DOMAIN series |-> series[i] * scale - baseline[i]]
        Window(idx) == Slice(residuals, Max(1, idx - window_count), idx - 1)
        Emits(idx) == /\ Len(Window(idx)) >= 3
                      /\ VarN2(Window(idx)) > 0
                      /\ ZAtLeast(ZScore(residuals[idx], Window(idx)), threshold)
        Entry(idx) == [ id |-> <<metric_name, "", idx>>,
                        timestamp |-> _isoformat(timestamps[idx]),
                        metric |-> metric_name,
                        value |-> series[idx],
                        baseline |-> [num |-> baseline[idx], den |-> scale],
                        zScore |-> [num |-> Abs(ZScore(residuals[idx], Window(idx)).num),
                                    den2 |-> ZScore(residuals[idx], Window(idx)).den2],
                        direction |-> IF residuals[idx] >= 0 THEN "spike" ELSE "drop",
                        tagType |-> None,
                        tagValue |-> None ]
        hits == SelectSeq([i \in DOMAIN series |-> i], Emits)
    IN [k \in DOMAIN hits |-> Entry(hits[k])]

\* The (idx, tagType, tagValue, bytes) observations of _detect_tag_anomalies'
\* nested loops, in loop order.
RECURSIVE TagObservations(_, _)
TagObservations(tag_metrics_list, idx) ==
    IF idx > Len(tag_metrics_list) THEN << >>
    ELSE [k \in DOMAIN tag_metrics_list[idx] |->
             [idx |-> idx, tagType |-> tag_metrics_list[idx][k].tagType,
              tagValue |-> tag_metrics_list[idx][k].tagValue,
              bytes |-> tag_metrics_list[idx][k].bytes]]
         \o TagObservations(tag_metrics_list, idx + 1)

\* The history of `key` after history.append(value), without any cut.
RememberedAll(tag_history, key, value, window_count) ==
    Append(Get(tag_history, key, << >>), value)

\* The history of `key` after history.append(value) and the cut to the last
\* max_history values.
Remembered(tag_history, key, value, window_count) ==
    LET appended == Append(Get(tag_history, key, << >>), value)
        max_history == Max(window_count * 4, window_count + 1)
    IN IF Len(appended) > max_history
       THEN SubSeq(appended, Len(appended) - max_history + 1, Len(appended))
       ELSE appended

\* The anomaly of one observation `o` of _detect_tag_anomalies given the
\* history of its tag (the observation included), if it is one.
TagAnomaly(timestamps, o, history, window_count, z_threshold, stats_fn) ==
    LET window_values == SubSeq(history, Len(history) - window_count + 1, Len(history))
        emits == /\ Len(history) >= window_count
                 /\ ScalePositive(stats_fn, window_values)
                 /\ Reaches(ZValue(stats_fn, o.bytes, window_values), z_threshold)
        entry == [ id |-> <<o.tagType, o.tagValue, o.idx>>,
                   timestamp |-> _isoformat(timestamps[o.idx]),
                   metric |-> "bytesPerSecond[" \o o.tagType \o "]",
                   value |-> o.bytes,
                   baseline |-> Location(stats_fn, window_values),
                   zScore |-> ZValue(stats_fn, o.bytes, window_values),
                   direction |-> IF ZValue(stats_fn, o.bytes, window_values).num > 0
                                 THEN "spike" ELSE "drop",
                   tagType |-> Some(o.tagType),
                   tagValue |-> Some(o.tagValue) ]
    IN IF emits THEN <<entry>> ELSE << >>

\* tag_history after the observations, in loop order.
RECURSIVE Histories(_, _, _)
Histories(observations, tag_history, window_count) ==
    IF observations = << >> THEN tag_history
    ELSE LET o == Head(observations)
         IN Histories(Tail(observations),
                      Put(tag_history, <<o.tagType, o.tagValue>>,
                          Remembered(tag_history, <<o.tagType, o.tagValue>>, o.bytes,
                                     window_count)),
                      window_count)

\* _detect_tag_anomalies: tag_history maps (tagType, tagValue) to its capped history.
RECURSIVE TagPass(_, _, _, _, _, _)
TagPass(timestamps, observations, tag_history, window_count, z_threshold, stats_fn) ==
    IF observations = << >> THEN << >>
    ELSE LET o == Head(observations)
             key == <<o.tagType, o.tagValue>>
             history == Remembered(tag_history, key, o.bytes, window_count)
         IN TagAnomaly(timestamps, o, history, window_count, z_threshold, stats_fn)
            \o TagPass(timestamps, Tail(observations), Put(tag_history, key, history),
                       window_count, z_threshold, stats_fn)

_detect_tag_anomalies(timestamps, tag_metrics_list, window_count, z_threshold, algorithm) ==
    TagPass(timestamps, TagObservations(tag_metrics_list, 1), EmptyDict, window_count, z_threshold,
            StatsFn(algorithm))

\* Python truth of an optional string: None and "" are false.
Truthy(value) == value # None /\ value[1] # ""

\* abs(a.zScore) > abs(b.zScore)
ZGreater(a, b) == a.num * a.num * b.den2 > b.num * b.num * a.den2

\* The bucket key of _build_clusters: (tagType or "metric", tagValue or metric).
ClusterKey(anomaly) ==
    << IF Truthy(anomaly.tagType) THEN anomaly.tagType[1] ELSE "metric",
       IF Truthy(anomaly.tagValue) THEN anomaly.tagValue[1] ELSE anomaly.metric >>

\* One cluster of _build_clusters (confidence, narrative and totalBytes, which
\* are formatted floats, are left out).
Cluster(key, items) ==
    LET ordered == SortedBy(items, [i \in DOMAIN items |-> items[i].timestamp])
        peakIdx == CHOOSE i \in DOMAIN ordered :
                       /\ \A j \in DOMAIN ordered : ~ZGreater(ordered[j].zScore, ordered[i].zScore)
                       /\ \A j \in 1..(i - 1) : ZGreater(ordered[i].zScore, ordered[j].zScore)
        peak == ordered[peakIdx]
    IN [ tagType |-> IF key[1] = "metric" THEN None ELSE Some(key[1]),
         tagValue |-> IF key[1] = "metric" THEN None ELSE Some(key[2]),
         metric |-> peak.metric,
         window |-> [lowerBound |-> ordered[1].timestamp,
                     upperBound |-> ordered[Len(ordered)].timestamp],
         peakTimestamp |-> peak.timestamp,
         peakValue |-> peak.value,
         peakZScore |-> [num |-> Abs(peak.zScore.num), den2 |-> peak.zScore.den2],
         totalAnomalies |-> Len(ordered),
         anomalyIDs |-> [i \in DOMAIN ordered |-> ordered[i].id] ]

\* clusters.sort(key=peakZScore, reverse=True): stable, larger peaks first.
RECURSIVE SortClusters(_, _)
SortClusters(clusters, rem) ==
    IF rem = {} THEN << >>
    ELSE LET m == CHOOSE i \in rem :
                     \A j \in rem : \/ ZGreater(clusters[i].peakZScore, clusters[j].peakZScore)
                                    \/ (~ZGreater(clusters[j].peakZScore, clusters[i].peakZScore)
                                        /\ i <= j)
         IN <<clusters[m]>> \o SortClusters(clusters, rem \ {m})

_build_clusters(anomalies) ==
    LET keys == Dedupe([i \in DOMAIN anomalies |-> ClusterKey(anomalies[i])])
        Bucket(key) == SelectSeq(anomalies, LAMBDA a : ClusterKey(a) = key)
        clusters == [k \in DOMAIN keys |-> Cluster(keys[k], Bucket(keys[k]))]
    IN SortClusters(clusters, DOMAIN clusters)

\* sum(max(0, float(pkt.get("length", 0))) for pkt in packets)
RECURSIVE TotalLength(_)
TotalLength(packets) ==
    IF packets = << >> THEN 0 ELSE Max(0, Head(packets).length) + TotalLength(Tail(packets))

\* The markers `info.lower()` contains, for the info texts of the model's
\* packets.
Markers(info) ==
    CASE info = "TLS Client Hello" -> {"client hello"}
      [] info = "TLS Server Hello" -> {"server hello"}
      [] info = "GET / HTTP/1.1" -> {"http", "get"}
      [] info = "HTTP/1.1 200 OK" -> {"http"}
      [] OTHER -> {}

\* How many packets satisfy `test`.
Count(packets, test(_)) == Len(SelectSeq(packets, test))

\* total_payload_bytes: max(0.0, float(length)) summed, a length float()
\* rejects being passed over.
RECURSIVE PayloadBytes(_)
PayloadBytes(packets) ==
    IF packets = << >> THEN 0
    ELSE (IF NumberOk(Head(packets).length) THEN Max(0, Head(packets).length) ELSE 0)
         + PayloadBytes(Tail(packets))

\* _summarize_payload: the counters that are positive, as (key, value) pairs.
_summarize_payload(packets) ==
    SelectSeq(
        << <<"tlsClientHello", Count(packets, LAMBDA pkt : "client hello" \in Markers(pkt.info))>>,
           <<"tlsServerHello", Count(packets, LAMBDA pkt : "server hello" \in Markers(pkt.info))>>,
           <<"httpRequests",
             Count(packets, LAMBDA pkt : /\ "http" \in Markers(pkt.info)
                                         /\ Markers(pkt.info) \cap {"get", "post", "put", "head"} # {})>>,
           <<"observedPayloadBytes", PayloadBytes(packets)>> >>,
        LAMBDA item : item[2] > 0)

\* The untagged anomalies of one series in process, with its baseline: by
\* _ewma and _detect_anomalies_ewma for algorithm "ewma", else by
\* _sliding_baseline and _detect_anomalies.
SeriesAnomalies(params, times, series, metric_name, window_count) ==
    LET alpha == IF "ewmaAlpha" \in DOMAIN params THEN params.ewmaAlpha
                 ELSE [num |-> 3, den |-> 10]
        scale == Power(alpha.den, Len(series) - 1)
    IN IF params.algorithm = "ewma"
       THEN [ baseline |-> [i \in DOMAIN series |-> [num |-> _ewma(series, alpha)[i], den |-> scale]],
              anomalies |-> _detect_anomalies_ewma(times, series, _ewma(series, alpha), scale,
                                                   metric_name, params.zThreshold, window_count) ]
       ELSE [ baseline |-> _sliding_baseline(series, window_count),
              anomalies |-> _detect_anomalies(times, series, _sliding_baseline(series, window_count),
                                              metric_name, params.zThreshold, window_count,
                                              StatsFn(params.algorithm)) ]

\* LegacyAnomalyDetector.process; `self` holds the attribute `defaults`.
LegacyProcess(self, request, ctx) ==
    LET metrics == request.metrics
        packets == request.packets
        params == self.defaults
        payload_enabled == IF "payloadConfig" \in DOMAIN request
                           THEN request.payloadConfig.payloadInspectionEnabled ELSE FALSE
        payload_summary == IF payload_enabled THEN _summarize_payload(packets) ELSE << >>
        raw_times == [i \in DOMAIN metrics |-> metrics[i].timestamp]
        paired == SortedBy(metrics, raw_times)
        times == [i \in DOMAIN paired |-> paired[i].timestamp]
        bytes_series == [i \in DOMAIN paired |-> paired[i].bytesPerSecond]
        zero_series == [i \in DOMAIN paired |-> 0]
        tag_metrics_list == [i \in DOMAIN paired |-> paired[i].tagMetrics]
        diffs == Diffs(times)
        \* twice sample_interval = max(1.0, median(diffs)) if diffs else 1.0
        sample_interval2 == IF diffs = << >> THEN 2 ELSE Max(2, Median2(diffs))
        window_seconds == params.windowSeconds
        z_threshold == params.zThreshold
        window_count == Max(3, RoundDiv(2 * window_seconds, sample_interval2))
        bytes_found == SeriesAnomalies(params, times, bytes_series, "bytesPerSecond", window_count)
        baseline_bytes == bytes_found.baseline
        byte_anomalies == bytes_found.anomalies
        packet_anomalies == SeriesAnomalies(params, times, zero_series, "packetsPerSecond",
                                            window_count).anomalies
        flow_anomalies == SeriesAnomalies(params, times, zero_series, "flowsPerSecond",
                                          window_count).anomalies
        tag_anomalies == _detect_tag_anomalies(times, tag_metrics_list, window_count, z_threshold,
                                               params.algorithm)
        anomalies == byte_anomalies \o packet_anomalies \o flow_anomalies \o tag_anomalies
        clusters == _build_clusters(anomalies)
        scored == add_score(ctx, "legacy", ScoreScale, "baseline-analyzer",
                            <<"legacy.detector.active">>)
        result ==
            << <<"metrics", [i \in DOMAIN paired |->
                                [ timestamp |-> _isoformat(times[i]),
                                  bytesPerSecond |-> bytes_series[i],
                                  tagMetrics |-> tag_metrics_list[i] ]]>>,
               <<"baseline", [i \in 1..Min(Len(times), Len(baseline_bytes)) |->
                                [ timestamp |-> _isoformat(times[i]),
                                  bytesPerSecond |-> baseline_bytes[i],
                                  tagMetrics |-> << >> ]]>>,
               <<"anomalies", anomalies>>,
               <<"summary", [ totalPackets |-> Len(packets),
                              totalBytes |-> TotalLength(packets),
                              meanBytesPerSecond |-> Mean(bytes_series),
                              windowSeconds |-> window_seconds,
                              zThreshold |-> z_threshold ]>>,
               <<"clusters", clusters>>,
               <<"settings", [ captureMode |-> "standard",
                               payloadInspectionEnabled |-> payload_enabled,
                               algorithm |-> params.algorithm,
                               ewmaAlpha |-> IF "ewmaAlpha" \in DOMAIN params
                                             THEN (params.ewmaAlpha.num * ScoreScale)
                                                      \div params.ewmaAlpha.den
                                             ELSE 30 ]>> >>
            \o (IF payload_summary # << >> THEN << <<"payloadSummary", payload_summary>> >>
                ELSE << >>)
    IN IF metrics = << >> THEN Raised(ctx, "No metrics supplied")
       ELSE IF \E i \in DOMAIN metrics : ~TimestampOk(metrics[i].timestamp)
                                         \/ ~NumberOk(metrics[i].bytesPerSecond)
       THEN Raised(ctx, "Invalid metric record")
       \* building "summary" evaluates float(pkt["length"]) after add_score has run
       ELSE IF \E i \in DOMAIN packets : ~NumberOk(packets[i].length)
       THEN Raised(scored, "could not convert string to float")
       ELSE Returned(scored, result)

-----------------------------------------------------------------------------
(* Helpers shared by the seasonality, change-point and multivariate detectors *)

\* _extract_series: entries whose timestamp does not parse are skipped, a rate
\* float() rejects reads as 0.0, and the records are sorted by time.  Only
\* bytesPerSecond can be non-zero in the model's samples.
_extract_series(metrics) ==
    LET kept == SelectSeq(metrics, LAMBDA m : TimestampOk(m.timestamp))
        records == SortedBy(kept, [i \in DOMAIN kept |-> kept[i].timestamp])
    IN [ times |-> [i \in DOMAIN records |-> records[i].timestamp],
         bytesPerSecond |-> [i \in DOMAIN records |->
                                IF NumberOk(records[i].bytesPerSecond)
                                THEN records[i].bytesPerSecond ELSE 0] ]

\* any(values)
AnyNonZero(values) == \E i \in DOMAIN values : values[i] # 0

\* Twice _estimate_sample_interval(times): 0 when there are fewer than two
\* samples or no positive gap, else the median of the positive gaps.
_estimate_sample_interval(times) ==
    LET positive == SelectSeq(Diffs(times), LAMBDA d : d > 0)
    IN IF Len(times) < 2 \/ positive = << >> THEN 0 ELSE Median2(positive)

\* a / b > c / d for positive denominators
FracGreater(x, y) == x.num * y.den > y.num * x.den

\* min(1, max(0, x)) of a fraction, in hundredths (rounded down)
Hundredths(x) == Max(0, Min(ScoreScale, (x.num * ScoreScale) \div x.den))

-----------------------------------------------------------------------------
(* SeasonalityDetector *)

SeasonalityDefaults ==
    [periodCandidates |-> <<60, 300, 900, 3600>>, minCycles |-> 2, minSamples |-> 60,
     bandStdDevs |-> 2]

\* The positions of bucket b of _seasonal_baseline (idx % period_steps = b, 0-based idx).
BucketOf(series, period_steps, b) ==
    SelectSeq([i \in DOMAIN series |-> i], LAMBDA i : (i - 1) % period_steps = b)

BucketValues(series, period_steps, b) ==
    LET pos == BucketOf(series, period_steps, b) IN [k \in DOMAIN pos |-> series[pos[k]]]

\* _seasonal_baseline's baseline: each sample's bucket mean.
_seasonal_baseline(series, period_steps) ==
    IF period_steps <= 1 \/ Len(series) < period_steps
    THEN [i \in DOMAIN series |-> [num |-> series[i], den |-> 1]]
    ELSE [i \in DOMAIN series |-> Mean(BucketValues(series, period_steps, (i - 1) % period_steps))]

RECURSIVE ProductOfCounts(_, _, _)
ProductOfCounts(series, period_steps, b) ==
    IF b >= period_steps THEN 1
    ELSE Len(BucketOf(series, period_steps, b)) * ProductOfCounts(series, period_steps, b + 1)

\* L * n * pvariance(residuals), L the product of the bucket sizes: the residuals
\* of a bucket sum to 0, so n * pvariance = sum over buckets of (sum x^2 - (sum x)^2 / count).
RECURSIVE ResidualSum(_, _, _, _)
ResidualSum(series, period_steps, b, L) ==
    IF b >= period_steps THEN 0
    ELSE LET v == BucketValues(series, period_steps, b)
         IN SumSq(v) * L - SumSeq(v) * SumSeq(v) * (L \div Len(v))
            + ResidualSum(series, period_steps, b + 1, L)

\* 1 - residual_var / total_var as an exact fraction (the 1e-9 guard is dropped)
Explained(series, period_steps) ==
    LET n == Len(series)
        degenerate == period_steps <= 1 \/ n < period_steps
        L == IF degenerate THEN 1 ELSE ProductOfCounts(series, period_steps, 0)
        total == VarN2(series)
        residual == IF degenerate THEN 0 ELSE ResidualSum(series, period_steps, 0, L)
    IN [num |-> L * total - n * residual, den |-> L * total]

\* _choose_period over the one usable series: [period, score, candidates]
RECURSIVE ChoosePeriod(_, _, _, _, _, _)
ChoosePeriod(candidates, series, sample_interval2, min_cycles, best, diag) ==
    IF candidates = << >> THEN [best |-> best, candidates |-> diag]
    ELSE LET period_seconds == Head(candidates)
             period_steps == RoundDiv(2 * period_seconds, sample_interval2)
             rest == Tail(candidates)
             explained == Explained(series, period_steps)
         IN IF period_seconds <= 0 \/ period_steps < 2
            THEN ChoosePeriod(rest, series, sample_interval2, min_cycles, best, diag)
            ELSE IF Len(series) < min_cycles * period_steps
            THEN ChoosePeriod(rest, series, sample_interval2, min_cycles, best,
                     Append(diag, [periodSeconds |-> period_seconds, status |-> "insufficient-cycles"]))
            ELSE IF Len(series) < period_steps \/ VarN2(series) <= 0
            THEN ChoosePeriod(rest, series, sample_interval2, min_cycles, best,
                     Append(diag, [periodSeconds |-> period_seconds, status |-> "no-explained-score"]))
            ELSE ChoosePeriod(rest, series, sample_interval2, min_cycles,
                     IF best = None \/ FracGreater(explained, best[1].explained)
                     THEN Some([periodSeconds |-> period_seconds, explained |-> explained])
                     ELSE best,
                     Append(diag, [periodSeconds |-> period_seconds, status |-> "evaluated"]))

_choose_period(self, series, sample_interval2) ==
    ChoosePeriod(self.settings.periodCandidates, series, sample_interval2,
                 self.settings.minCycles, None, << >>)

\* process without the minSamples check: a short request falls through to the
\* check of the series.
SeasonalityProcessUnchecked(self, request, ctx) ==
    Returned(add_score(ctx, "seasonality", 0, "seasonality-no-series", <<"seasonality.no-series">>),
             << >>)

SeasonalityProcess(self, request, ctx) ==
    LET metrics == request.metrics
        extracted == _extract_series(metrics)
        times == extracted.times
        series == extracted.bytesPerSecond
        sample_interval2 == _estimate_sample_interval(times)
        chosen == _choose_period(self, series, sample_interval2)
        chosen_period == chosen.best[1].periodSeconds
        period_steps == Max(2, RoundDiv(2 * chosen_period, sample_interval2))
        baseline == _seasonal_baseline(series, period_steps)
        explained == IF VarN2(series) > 0 THEN Hundredths(Explained(series, period_steps)) ELSE 0
        metric_payload ==
            [bytesPerSecond |->
                [ confidence |-> explained,
                  band |-> [i \in DOMAIN series |->
                               [timestamp |-> _isoformat(times[i]), baseline |-> baseline[i]]] ]]
        overall_confidence == explained
        payload == [ periodSeconds |-> chosen_period,
                     sampleIntervalSeconds2 |-> sample_interval2,
                     metrics |-> metric_payload,
                     diagnostics |-> chosen ]
        Skip(label, reason) == Returned(add_score(ctx, "seasonality", 0, label, <<reason>>), << >>)
    IN IF Len(metrics) < self.settings.minSamples
       THEN Skip("seasonality-inactive", "seasonality.insufficient-data")
       ELSE IF ~AnyNonZero(series)
       THEN Skip("seasonality-no-series", "seasonality.no-series")
       ELSE IF sample_interval2 <= 0
       THEN Skip("seasonality-bad-sample-interval", "seasonality.invalid-sample-interval")
       ELSE IF chosen.best = None
       THEN Skip("seasonality-no-period", "seasonality.period-missing")
       ELSE Returned(
              [add_score(ctx, "seasonality", overall_confidence, "seasonality-baseline",
                         <<"seasonality.period:" \o ToString(chosen_period)>>)
                  EXCEPT !.seasonality_confidence = Some(overall_confidence),
                         !.seasonality_payload = Some(payload)],
              << <<"seasonality", payload>> >>)

-----------------------------------------------------------------------------
(* ChangePointDetector *)

ChangePointDefaults ==
    [windowSeconds |-> 60, thresholdStdDevs |-> 2, minSamples |-> 180, minGapSeconds |-> 45]

\* A detection loop without the refractory gap.
RefractoryNever(center, last_index, min_gap_steps) == FALSE

\* last_index is not None and center - last_index < min_gap_steps
Refractory(center, last_index, min_gap_steps) ==
    last_index # 0 /\ center - last_index < min_gap_steps

\* _detect_for_series from `center` on (1-based; the windows are the
\* window_steps samples before it and the window_steps samples from it).
\* last_index = 0 stands for None.  score = diff / std_dev is kept as
\* [num, den2] = [2 * (sum(after) - sum(before)), n^2 * variance], with the
\* rounding of the float arithmetic in `ulps`: `err` is 0 for whole-number
\* samples, whose means, variance and quotient are exact, and -1 or 1 for
\* fractional ones, where math.sqrt and the division leave the quotient just
\* below or just above its exact value.
\* The loop passes over centers until one is taken, so the points from
\* `center` on are the first center taken and the points after it.
RECURSIVE DetectFrom(_, _, _, _, _, _, _, _, _)
DetectFrom(times, series, metric, window_steps, threshold, min_gap_steps, center, last_index, err) ==
    LET before_window(c) == SubSeq(series, c - window_steps, c - 1)
        after_window(c) == SubSeq(series, c, c + window_steps - 1)
        delta(c) == SumSeq(after_window(c)) - SumSeq(before_window(c))
        variance(c) == VarN2(before_window(c) \o after_window(c))
        score(c) == IF variance(c) = 0
                    THEN [num |-> (IF delta(c) > 0 THEN 2 ELSE -2) * threshold, den2 |-> 1,
                          ulps |-> 0, sentinel |-> TRUE]
                    ELSE [num |-> 2 * delta(c), den2 |-> variance(c),
                          ulps |-> err, sentinel |-> FALSE]
        skip(c) == \/ Refractory(c, last_index, min_gap_steps)
                   \/ variance(c) = 0 /\ delta(c) = 0
                   \/ ~RoundedAtLeast(score(c), threshold)
        taken == {c \in center..(Len(series) - window_steps) : ~skip(c)}
        first == CHOOSE c \in taken : \A d \in taken : c <= d
        point == [ id |-> <<metric, first>>,
                   timestamp |-> _isoformat(times[first]),
                   metric |-> metric,
                   direction |-> IF delta(first) > 0 THEN "increase" ELSE "decrease",
                   beforeMean |-> Mean(before_window(first)),
                   afterMean |-> Mean(after_window(first)),
                   meanDelta |-> [num |-> delta(first), den |-> window_steps],
                   score |-> score(first) ]
    IN IF taken = {} THEN << >>
       ELSE <<point>> \o DetectFrom(times, series, metric, window_steps, threshold,
                                    min_gap_steps, first + 1, first, err)

_detect_for_series(times, series, metric, window_steps, threshold, min_gap_steps, err) ==
    DetectFrom(times, series, metric, window_steps, threshold, min_gap_steps, window_steps + 1, 0,
               err)

ChangePointDiagnostics(self, sample_interval2, window_steps, change_points) ==
    [ sampleIntervalSeconds2 |-> sample_interval2,
      windowSteps |-> window_steps,
      thresholdStdDevs |-> self.settings.thresholdStdDevs,
      windowSeconds |-> self.settings.windowSeconds,
      detected |-> Len(change_points) ]

\* ChangePointDetector.process on a request whose float arithmetic rounds by
\* `err`.  Every emitted point has abs(score) >= threshold, so with
\* threshold > 0 the component score min(1.0, peak / threshold) is 1.0.
ChangePointRun(self, request, ctx, err) ==
    LET metrics == request.metrics
        extracted == _extract_series(metrics)
        times == extracted.times
        series == extracted.bytesPerSecond
        sample_interval2 == _estimate_sample_interval(times)
        window_steps == Max(2, RoundDiv(2 * self.settings.windowSeconds, sample_interval2))
        min_gap_steps == Max(1, RoundDiv(2 * self.settings.minGapSeconds, sample_interval2))
        threshold == self.settings.thresholdStdDevs
        change_points == IF Len(series) < window_steps * 2 THEN << >>
                         ELSE _detect_for_series(times, series, "bytesPerSecond", window_steps,
                                                 threshold, min_gap_steps, err)
        inactive == ChangePointDiagnostics(self, None, None, << >>)
        diagnostics == ChangePointDiagnostics(self, Some(sample_interval2), Some(window_steps),
                                              change_points)
        Skip(label, reason) ==
            Returned([add_score(ctx, "changepoint", 0, label, <<reason>>)
                         EXCEPT !.change_point_diagnostics = Some(inactive)],
                     << <<"changePointDiagnostics", inactive>> >>)
    IN IF Len(metrics) < self.settings.minSamples
       THEN Skip("changepoint-inactive", "changepoint.insufficient-data")
       ELSE IF ~AnyNonZero(series)
       THEN Skip("changepoint-no-series", "changepoint.no-series")
       ELSE IF sample_interval2 <= 0
       THEN Skip("changepoint-bad-sample-interval", "changepoint.invalid-sample-interval")
       ELSE IF change_points = << >>
       THEN Returned([add_score(ctx, "changepoint", 0, "changepoint-none", <<"changepoint.none">>)
                         EXCEPT !.change_point_diagnostics = Some(diagnostics)],
                     << <<"changePoints", << >> >>, <<"changePointDiagnostics", diagnostics>> >>)
       ELSE Returned([add_score(ctx, "changepoint", ScoreScale, "changepoint-detected",
                                <<"changepoint.detected">>)
                         EXCEPT !.change_point_diagnostics = Some(diagnostics)],
                     << <<"changePoints", change_points>>,
                        <<"changePointDiagnostics", diagnostics>> >>)

\* ChangePointDetector.process on the whole-number samples of the pipeline's
\* requests.
ChangePointProcess(self, request, ctx) == ChangePointRun(self, request, ctx, 0)

-----------------------------------------------------------------------------
(* MultivariateDetector *)

MultivariateDefaults ==
    [windowSeconds |-> 60, threshold |-> 3, minSamples |-> 180, minFeatures |-> 2]

FEATURE_KEYS == <<"bytesPerSecond", "packetsPerSecond", "flowsPerSecond">>

\* float(entry.get(feature, 0.0)), 0.0 when float() rejects the value
Feature(entry, feature) ==
    IF feature \in DOMAIN entry /\ NumberOk(entry[feature]) THEN entry[feature] ELSE 0

\* The features of MultivariateDetector._extract_series: one series per
\* feature key, in time order.
FeatureSeries(metrics) ==
    LET kept == SelectSeq(metrics, LAMBDA m : TimestampOk(m.timestamp))
        records == SortedBy(kept, [i \in DOMAIN kept |-> kept[i].timestamp])
    IN [feature \in Range(FEATURE_KEYS) |->
           [i \in DOMAIN records |-> Feature(records[i], feature)]]

\* _baseline_stats and _z_scores for one feature at `index` (1-based): no
\* entry when the window is constant and the value equals it, +-10 when the
\* window is constant and the value differs, else (value - mean) / std_dev.
FeatureZ(series, feature, window_steps, index) ==
    LET window == SubSeq(series, index - window_steps, index - 1)
        offset == Len(window) * series[index] - SumSeq(window)
    IN IF VarN2(window) = 0
       THEN IF offset = 0 THEN << >>
            ELSE << [feature |-> feature,
                     z |-> [num |-> IF offset > 0 THEN 10 ELSE -10, den2 |-> 1]] >>
       ELSE << [feature |-> feature, z |-> ZScore(series[index], window)] >>

\* _z_scores over the usable features, in their order
RECURSIVE _z_scores(_, _, _, _)
_z_scores(feature_series, usable_features, window_steps, index) ==
    IF usable_features = << >> THEN << >>
    ELSE FeatureZ(feature_series[Head(usable_features)], Head(usable_features), window_steps, index)
         \o _z_scores(feature_series, Tail(usable_features), window_steps, index)

\* sum(value**2 for value in z_scores.values()), as the fraction [num, den]
RECURSIVE SumOfSquares(_)
SumOfSquares(z_scores) ==
    IF z_scores = << >> THEN [num |-> 0, den |-> 1]
    ELSE LET z == Head(z_scores).z
             rest == SumOfSquares(Tail(z_scores))
         IN [num |-> z.num * z.num * rest.den + rest.num * z.den2, den |-> z.den2 * rest.den]

\* abs(a) > abs(b) for z-scores kept as [num, den2]
Larger(a, b) == a.num * a.num * b.den2 > b.num * b.num * a.den2

\* contributions.sort(key=abs(zScore), reverse=True): the sort is stable.
ByMagnitude(entries) ==
    [r \in DOMAIN entries |->
        entries[CHOOSE i \in DOMAIN entries :
                    Cardinality({j \in DOMAIN entries :
                                    \/ Larger(entries[j].z, entries[i].z)
                                    \/ ~Larger(entries[i].z, entries[j].z) /\ j < i}) = r - 1]]

\* abs(z), as [num, den2]
Magnitude(z) == [num |-> Abs(z.num), den2 |-> z.den2]

\* _feature_contributions without the sort.
_feature_contributions_unsorted(z_scores) ==
    [i \in DOMAIN z_scores |->
        [ feature |-> z_scores[i].feature,
          weight |-> [ part |-> Magnitude(z_scores[i].z),
                       total |-> IF \A k \in DOMAIN z_scores : z_scores[k].z.num = 0
                                 THEN << [num |-> 1, den2 |-> 1] >>
                                 ELSE [k \in DOMAIN z_scores |-> Magnitude(z_scores[k].z)] ],
          zScore |-> z_scores[i].z,
          direction |-> IF z_scores[i].z.num >= 0 THEN "increase" ELSE "decrease" ]]

\* _feature_contributions.  A weight abs(z) / total is kept as its two parts;
\* total is the sum of the magnitudes listed, 1.0 when that sum is zero.
_feature_contributions(z_scores) ==
    LET sorted == ByMagnitude(z_scores)
    IN [i \in DOMAIN sorted |->
           [ feature |-> sorted[i].feature,
             weight |-> [ part |-> Magnitude(sorted[i].z),
                          total |-> IF \A k \in DOMAIN z_scores : z_scores[k].z.num = 0
                                    THEN << [num |-> 1, den2 |-> 1] >>
                                    ELSE [k \in DOMAIN z_scores |-> Magnitude(z_scores[k].z)] ],
             zScore |-> sorted[i].z,
             direction |-> IF sorted[i].z.num >= 0 THEN "increase" ELSE "decrease" ]]

\* The detection appended for `index` (1-based); score = sqrt(squares).
Detection(times, feature_series, usable_features, index, z_scores, squares) ==
    [ id |-> <<"multivariate", index>>,
      timestamp |-> _isoformat(times[index]),
      score |-> squares,
      features |-> [i \in DOMAIN usable_features |->
                       [feature |-> usable_features[i],
                        value |-> feature_series[usable_features[i]][index]]],
      zScores |-> z_scores,
      contributions |-> _feature_contributions(z_scores) ]

\* One pass of the loop of MultivariateDetector.process: nothing when there
\* are no z-scores or math.sqrt(squares) < threshold.
JointScore(times, feature_series, usable_features, threshold, index, z_scores, squares) ==
    IF z_scores = << >> \/ squares.num < threshold * threshold * squares.den THEN << >>
    ELSE << Detection(times, feature_series, usable_features, index, z_scores, squares) >>

\* The loop of MultivariateDetector.process from `index` (1-based) on.
RECURSIVE JointScores(_, _, _, _, _, _)
JointScores(times, feature_series, usable_features, window_steps, threshold, index) ==
    IF index > Len(times) THEN << >>
    ELSE JointScore(times, feature_series, usable_features, threshold, index,
                    _z_scores(feature_series, usable_features, window_steps, index),
                    SumOfSquares(_z_scores(feature_series, usable_features, window_steps, index)))
         \o JointScores(times, feature_series, usable_features, window_steps, threshold, index + 1)

MultivariateDiagnostics(sample_interval2, window_steps, evaluated) ==
    [ sampleIntervalSeconds2 |-> sample_interval2, windowSteps |-> window_steps,
      evaluatedPoints |-> evaluated ]

\* MultivariateDetector.process.  With threshold > 0 the component score of a
\* run with detections, min(1.0, top / threshold), is 1.0.
MultivariateProcess(self, request, ctx) ==
    LET metrics == request.metrics
        times == _extract_series(metrics).times
        feature_series == FeatureSeries(metrics)
        usable_features == SelectSeq(FEATURE_KEYS, LAMBDA key : AnyNonZero(feature_series[key]))
        sample_interval2 == _estimate_sample_interval(times)
        window_steps == Max(5, RoundDiv(2 * self.settings.windowSeconds, sample_interval2))
        threshold == self.settings.threshold
        evaluations == IF usable_features = << >> THEN 0 ELSE Max(0, Len(times) - window_steps)
        detections == IF usable_features = << >> THEN << >>
                      ELSE JointScores(times, feature_series, usable_features, window_steps,
                                       threshold, window_steps + 1)
        inactive == MultivariateDiagnostics(None, None, 0)
        diagnostics == MultivariateDiagnostics(Some(sample_interval2), Some(window_steps), evaluations)
        Skip(label, reason) ==
            Returned([add_score(ctx, "multivariate", 0, label, <<reason>>)
                         EXCEPT !.multivariate_diagnostics = Some(inactive)],
                     << <<"multivariateDiagnostics", inactive>> >>)
    IN IF Len(metrics) < self.settings.minSamples
       THEN Skip("multivariate-inactive", "multivariate.insufficient-data")
       ELSE IF Len(usable_features) < self.settings.minFeatures
       THEN Skip("multivariate-too-few-features", "multivariate.few-features")
       ELSE IF sample_interval2 <= 0
       THEN Skip("multivariate-bad-interval", "multivariate.invalid-sample-interval")
       ELSE IF detections = << >>
       THEN Returned([add_score(ctx, "multivariate", 0, "multivariate-none", <<"multivariate.none">>)
                         EXCEPT !.multivariate_diagnostics = Some(diagnostics)],
                     << <<"multivariateScores", << >> >>, <<"multivariateDiagnostics", diagnostics>> >>)
       \* context.multivariate_scores.extend(detections), then the same list is returned
       ELSE Returned([add_score(ctx, "multivariate", ScoreScale, "multivariate-detected",
                                <<"multivariate.detected">>)
                         EXCEPT !.multivariate_diagnostics = Some(diagnostics),
                                !.multivariate_scores = @ \o detections],
                     << <<"multivariateScores", detections>>,
                        <<"multivariateDiagnostics", diagnostics>> >>)

-----------------------------------------------------------------------------
(* NewTalkerDetector *)

NewTalkerDefaults == [recentWindowSeconds |-> 180, minBytes |-> 2048, maxEntries |-> 10]

TAG_TYPES == <<"destination", "process", "port">>

\* The (index, timestamp, tagType, identifier, bytes) registrations of
\* _collect_entries over the metrics sorted by time.
RECURSIVE Registrations(_, _)
Registrations(sorted_metrics, index) ==
    IF index > Len(sorted_metrics) THEN << >>
    ELSE LET tags == sorted_metrics[index].tagMetrics
         IN [k \in DOMAIN tags |->
                [index |-> index, timestamp |-> sorted_metrics[index].timestamp,
                 tagType |-> tags[k].tagType, identifier |-> tags[k].tagValue,
                 bytes |-> tags[k].bytes]]
            \o Registrations(sorted_metrics, index + 1)

\* _TagInfo of (tag_type, identifier) after every register() call.
_TagInfo(regs, tag_type, identifier) ==
    LET mine == SelectSeq(regs, LAMBDA r : r.tagType = tag_type /\ r.identifier = identifier)
    IN [ tagType |-> tag_type,
         identifier |-> identifier,
         first_seen |-> mine[1].timestamp,
         last_seen |-> mine[Len(mine)].timestamp,
         total_bytes |-> SumSeq([i \in DOMAIN mine |-> Max(0, mine[i].bytes)]),
         unique_windows |-> Cardinality({mine[i].index : i \in DOMAIN mine}) ]

\* _collect_entries: the tag map of one tag type, in insertion order.
_collect_entries(regs, tag_type) ==
    LET mine == SelectSeq(regs, LAMBDA r : r.tagType = tag_type)
        identifiers == Dedupe([i \in DOMAIN mine |-> mine[i].identifier])
    IN [i \in DOMAIN identifiers |-> _TagInfo(regs, tag_type, identifiers[i])]

NewTalkerDiagnostics(total_seen, detected, selected) ==
    [uniqueTagsEvaluated |-> total_seen, detected |-> detected, returned |-> selected]

\* The tag maps of all tag types, in TAG_TYPES order.
AllEntries(regs) ==
    _collect_entries(regs, TAG_TYPES[1]) \o _collect_entries(regs, TAG_TYPES[2])
    \o _collect_entries(regs, TAG_TYPES[3])

\* Qualifying without the pass for tags seen in a single window.
QualifyingRecent(entries, recent_window, min_bytes) ==
    LET series_end == CHOOSE t \in {entries[i].last_seen : i \in DOMAIN entries} :
                          \A i \in DOMAIN entries : entries[i].last_seen <= t
    IN SelectSeq(entries, LAMBDA tag :
           /\ ~(tag.total_bytes < min_bytes)
           /\ ~(tag.first_seen < series_end - recent_window))

\* The tags process keeps: enough bytes, and first seen inside the recent
\* window unless seen in a single window only.
Qualifying(entries, recent_window, min_bytes) ==
    LET series_end == CHOOSE t \in {entries[i].last_seen : i \in DOMAIN entries} :
                          \A i \in DOMAIN entries : entries[i].last_seen <= t
    IN SelectSeq(entries, LAMBDA tag :
           /\ ~(tag.total_bytes < min_bytes)
           /\ ~(tag.first_seen < series_end - recent_window /\ tag.unique_windows > 1))

\* One entry of new_talkers (entropyDelta, a float logarithm, is left out).
Talker(tag) ==
    [ id |-> <<tag.tagType, tag.identifier>>,
      tagType |-> tag.tagType,
      tagValue |-> tag.identifier,
      firstSeen |-> _isoformat(tag.first_seen),
      lastSeen |-> _isoformat(tag.last_seen),
      totalBytes |-> tag.total_bytes,
      samples |-> tag.unique_windows ]

\* new_talkers.sort(key=(firstSeen, -totalBytes)): two stable passes, minor
\* key first.
SortTalkers(new_talkers) ==
    LET by_bytes == SortedBy(new_talkers, [i \in DOMAIN new_talkers |-> -new_talkers[i].totalBytes])
    IN SortedBy(by_bytes, [i \in DOMAIN by_bytes |-> by_bytes[i].firstSeen])

\* The end of process: nothing selected, or the selected entries are scored,
\* appended to context.new_talkers and returned as well.
NewTalkerReport(ctx, max_entries, diagnostics, selected) ==
    IF selected = << >>
    THEN Returned([add_score(ctx, "newtalker", 0, "newtalker-none", <<"newtalker.none">>)
                      EXCEPT !.new_talker_diagnostics = Some(diagnostics)],
                  << <<"newTalkers", << >> >>, <<"newTalkerDiagnostics", diagnostics>> >>)
    ELSE Returned([add_score(ctx, "newtalker",
                             Min(ScoreScale, (Len(selected) * ScoreScale) \div max_entries),
                             "newtalker-detected",
                             <<"newtalker.count:" \o ToString(Len(selected))>>)
                      EXCEPT !.new_talker_diagnostics = Some(diagnostics),
                             !.new_talkers = @ \o selected],
                  << <<"newTalkers", selected>>, <<"newTalkerDiagnostics", diagnostics>> >>)

\* process from the sort of new_talkers on.
NewTalkerRank(self, ctx, total_seen, detected, selected) ==
    NewTalkerReport(ctx, self.settings.maxEntries,
                    NewTalkerDiagnostics(total_seen, detected, Len(selected)), selected)

\* process once the tag maps are collected.
NewTalkerScan(self, ctx, entries) ==
    IF entries = << >>
    THEN NewTalkerReport(ctx, self.settings.maxEntries, NewTalkerDiagnostics(0, 0, 0), << >>)
    ELSE LET qualifying == Qualifying(entries, self.settings.recentWindowSeconds,
                                      self.settings.minBytes)
         IN NewTalkerRank(self, ctx, Len(entries), Len(qualifying),
                          Slice(SortTalkers([i \in DOMAIN qualifying |-> Talker(qualifying[i])]),
                                1, self.settings.maxEntries))

\* NewTalkerDetector.process.  Sorting the metrics parses every timestamp,
\* unguarded.
NewTalkerProcess(self, request, ctx) ==
    IF request.metrics = << >>
    THEN Returned([add_score(ctx, "newtalker", 0, "newtalker-no-metrics", <<"newtalker.no-metrics">>)
                      EXCEPT !.new_talker_diagnostics = Some(NewTalkerDiagnostics(0, 0, 0))],
                  << <<"newTalkerDiagnostics", NewTalkerDiagnostics(0, 0, 0)>> >>)
    ELSE IF \E i \in DOMAIN request.metrics : ~TimestampOk(request.metrics[i].timestamp)
    THEN Raised(ctx, "Invalid isoformat string")
    ELSE NewTalkerScan(self, ctx,
             AllEntries(Registrations(
                 SortedBy(request.metrics,
                          [i \in DOMAIN request.metrics |-> request.metrics[i].timestamp]), 1)))

-----------------------------------------------------------------------------
(* AnalyzerPipeline *)

\* The detector entries of the pipeline manifest, in order (all enabled, each
\* with an empty config).
Manifest == <<"legacy", "seasonality", "changepoint", "multivariate", "newtalker">>

\* _load_detector: detector_cls(config={}, base_path): the attributes each
\* detector's __init__ sets.  LegacyAnomalyDetector keeps `defaults`, the
\* other four keep `settings`.
NewDetector(identifier) ==
    CASE identifier = "legacy" -> [defaults |-> LegacyDefaults]
      [] identifier = "seasonality" -> [settings |-> SeasonalityDefaults]
      [] identifier = "changepoint" -> [settings |-> ChangePointDefaults]
      [] identifier = "multivariate" -> [settings |-> MultivariateDefaults]
      [] identifier = "newtalker" -> [settings |-> NewTalkerDefaults]

\* AnalyzerPipeline.__init__: self.detectors, keyed by identifier.
NewPipeline == [identifier \in Range(Manifest) |-> NewDetector(identifier)]

\* detector.process(request, context) of the class the entry names.
DetectorProcess(identifier, self, request, ctx) ==
    CASE identifier = "legacy" -> LegacyProcess(self, request, ctx)
      [] identifier = "seasonality" -> SeasonalityProcess(self, request, ctx)
      [] identifier = "changepoint" -> ChangePointProcess(self, request, ctx)
      [] identifier = "multivariate" -> MultivariateProcess(self, request, ctx)
      [] identifier = "newtalker" -> NewTalkerProcess(self, request, ctx)

\* The parameters a detector instance reads when it runs.
SettingsOf(detector) ==
    IF "settings" \in DOMAIN detector THEN detector.settings ELSE detector.defaults

\* controls.alerts or request.alerts or {}
AlertsConfig(request) ==
    IF request.controlsAlerts # None /\ DOMAIN request.controlsAlerts[1] # {}
    THEN request.controlsAlerts[1]
    ELSE IF request.alerts # None /\ DOMAIN request.alerts[1] # {}
    THEN request.alerts[1]
    ELSE EmptyDict

\* The first lines of AnalyzerPipeline.process: a fresh context that holds the
\* alert configuration.
StartContext(request) == [NewContext EXCEPT !.alert_config = Some(AlertsConfig(request))]

\* The settings the except branch of process merges for a failed detector.
FailureSettings(identifier, message) ==
    (("detector:" \o identifier) :> "error")
    @@ (("detector:" \o identifier \o ":message") :> message)

\* The override step of the loop: detector.settings.update(override), when the
\* override is not empty and the detector has a `settings` dict.
ApplyOverride(detector, override) ==
    IF DOMAIN override # {} /\ "settings" \in DOMAIN detector
    THEN [detector EXCEPT !.settings = Update(@, override)]
    ELSE detector

\* Absorb without the except branch's merge of the failure settings.
AbsorbUnrecorded(identifier, out) ==
    IF out.raised
    THEN add_score(out.ctx, identifier, 0, "detector-failure", <<"error:" \o identifier>>)
    ELSE IF out.partial # << >> THEN merge_partial(out.ctx, out.partial)
    ELSE out.ctx

\* What the loop does with the outcome `out` of detector.process: the except
\* branch scores the failure and merges its settings; a non-empty partial is
\* merged.
Absorb(identifier, out) ==
    IF out.raised
    THEN merge_partial(
             add_score(out.ctx, identifier, 0, "detector-failure", <<"error:" \o identifier>>),
             << <<"settings", FailureSettings(identifier, out.message)>> >>)
    ELSE IF out.partial # << >> THEN merge_partial(out.ctx, out.partial)
    ELSE out.ctx

\* The pipeline and the context after the detector, given as `updated`, ran
\* with outcome `out`.  `entry` records what the detector was given, the
\* partial it returned and the keys of the partial that was merged.
Dispatched_(pipeline, identifier, override, updated, out) ==
    [ pipeline |-> [pipeline EXCEPT ![identifier] = updated],
      ctx |-> Absorb(identifier, out),
      entry |-> [ detector |-> identifier,
                  prior |-> SettingsOf(pipeline[identifier]),
                  override |-> override,
                  used |-> SettingsOf(updated),
                  raised |-> out.raised,
                  message |-> out.message,
                  partial |-> IF out.raised THEN << >> ELSE out.partial,
                  merged |-> IF out.raised THEN << >>
                             ELSE [j \in DOMAIN out.partial |-> out.partial[j][1]] ] ]

\* One iteration of the loop of AnalyzerPipeline.process for an entry that is
\* not disabled: the override is written into the instance's settings, the
\* detector runs, and its partial (or its failure) is merged.
DispatchOne(pipeline, identifier, request, ctx) ==
    LET override == Get(request.detectorParams, identifier, EmptyDict)
        updated == ApplyOverride(pipeline[identifier], override)
    IN Dispatched_(pipeline, identifier, override, updated,
                   DetectorProcess(identifier, updated, request, ctx))

\* _ensure_summary that backfills the summary only.
_ensure_summary_only(ctx, request) ==
    IF "summary" \notin DOMAIN ctx.result
    THEN merge_partial(ctx, << <<"summary",
             [ totalPackets |-> Len(request.packets),
               totalBytes |-> 0,
               meanBytesPerSecond |-> [num |-> 0, den |-> 1],
               windowSeconds |-> 60,
               zThreshold |-> 3 ]>> >>)
    ELSE ctx

\* _ensure_summary.  A numeric timestamp is normalised to ISO-8601, a string
\* is kept as it is; a rate float() rejects reads as 0.0.
_ensure_summary(ctx, request) ==
    LET metrics == request.metrics
        packets == request.packets
        Coerce(value) == IF NumberOk(value) THEN value ELSE 0
        sanitized_metrics ==
            [i \in DOMAIN metrics |->
                [ timestamp |-> IF TimestampOk(metrics[i].timestamp)
                                THEN _isoformat(metrics[i].timestamp)
                                ELSE metrics[i].timestamp,
                  bytesPerSecond |-> Coerce(metrics[i].bytesPerSecond),
                  tagMetrics |-> metrics[i].tagMetrics ]]
        bytes_series == [i \in DOMAIN metrics |-> Coerce(metrics[i].bytesPerSecond)]
        baseline == [i \in DOMAIN sanitized_metrics |->
                        [ timestamp |-> sanitized_metrics[i].timestamp,
                          bytesPerSecond |-> [num |-> sanitized_metrics[i].bytesPerSecond, den |-> 1],
                          tagMetrics |-> << >> ]]
        summary == [ totalPackets |-> Len(packets),
                     totalBytes |-> TotalLength(SelectSeq(packets, LAMBDA pkt : NumberOk(pkt.length))),
                     meanBytesPerSecond |-> IF bytes_series = << >> THEN [num |-> 0, den |-> 1]
                                            ELSE Mean(bytes_series),
                     windowSeconds |-> 60,
                     zThreshold |-> 3 ]
        c1 == IF sanitized_metrics # << >> /\ "metrics" \notin DOMAIN ctx.result
              THEN merge_partial(ctx, << <<"metrics", sanitized_metrics>> >>) ELSE ctx
        c2 == IF sanitized_metrics # << >> /\ "baseline" \notin DOMAIN c1.result
              THEN merge_partial(c1, << <<"baseline", baseline>> >>) ELSE c1
        c3 == IF "anomalies" \notin DOMAIN c2.result
              THEN merge_partial(c2, << <<"anomalies", << >> >> >>) ELSE c2
        c4 == IF "clusters" \notin DOMAIN c3.result
              THEN merge_partial(c3, << <<"clusters", << >> >> >>) ELSE c3
    IN IF "summary" \notin DOMAIN c4.result
       THEN merge_partial(c4, << <<"summary", summary>> >>) ELSE c4

\* _evaluate_alerts that passes over a score equal to the threshold.
_evaluate_alerts_strict(ctx, alerts_config) ==
    LET threshold == Get(alerts_config, "scoreThreshold", 90)
        destinations == Get(alerts_config, "destinations", << >>)
        hits == SelectSeq(ctx.component_scores, LAMBDA entry : entry.score > threshold)
        events == [i \in DOMAIN hits |->
                      [ detector |-> hits[i].detector,
                        score |-> hits[i].score,
                        severity |-> IF hits[i].score >= threshold + 20 THEN "critical"
                                     ELSE "warning",
                        destinations |-> destinations,
                        message |-> <<hits[i].detector, hits[i].score, threshold>> ]]
    IN [ctx EXCEPT !.alert_events = @ \o events]

\* _evaluate_alerts: thresholds and scores in hundredths; the message is kept
\* as the values it formats.
_evaluate_alerts(ctx, alerts_config) ==
    LET threshold == Get(alerts_config, "scoreThreshold", 90)
        destinations == Get(alerts_config, "destinations", << >>)
        hits == SelectSeq(ctx.component_scores, LAMBDA entry : ~(entry.score < threshold))
        events == [i \in DOMAIN hits |->
                      [ detector |-> hits[i].detector,
                        score |-> hits[i].score,
                        severity |-> IF hits[i].score >= threshold + 20 THEN "critical"
                                     ELSE "warning",
                        destinations |-> destinations,
                        message |-> <<hits[i].detector, hits[i].score, threshold>> ]]
    IN [ctx EXCEPT !.alert_events = @ \o events]

\* The loop's locals after a dispatch.
Advance(trace, step) ==
    [pipeline |-> step.pipeline, ctx |-> step.ctx, trace |-> Append(trace, step.entry)]

\* One iteration of process's loop without the check of disableDetectors.
LoopIterationAll(pipeline, request, ctx, trace, index) ==
    Advance(trace, DispatchOne(pipeline, Manifest[index], request, ctx))

\* One iteration of the loop of AnalyzerPipeline.process, for the manifest
\* entry at `index`: a disabled entry is passed over.
LoopIteration(pipeline, request, ctx, trace, index) ==
    IF Manifest[index] \in request.disableDetectors
    THEN [pipeline |-> pipeline, ctx |-> ctx, trace |-> trace]
    ELSE Advance(trace, DispatchOne(pipeline, Manifest[index], request, ctx))

\* The loop of AnalyzerPipeline.process from manifest position `index` on;
\* `at` holds the pipeline's detectors, the context and the trace so far.
RECURSIVE RunDetectors(_, _, _)
RunDetectors(at, request, index) ==
    IF index > Len(Manifest) THEN at
    ELSE RunDetectors(LoopIteration(at.pipeline, request, at.ctx, at.trace, index),
                      request, index + 1)

\* The loop of AnalyzerPipeline.process, on the detectors `pipeline`.
RunLoop(pipeline, request) ==
    RunDetectors([pipeline |-> pipeline, ctx |-> StartContext(request), trace |-> << >>],
                 request, 1)

\* The last lines of AnalyzerPipeline.process.
Respond(ctx, request, latency_ms) ==
    serialize(_evaluate_alerts(_ensure_summary(ctx, request), AlertsConfig(request)), latency_ms)

-----------------------------------------------------------------------------
(* analyzer.py, the standalone script.  Its helpers are the functions of       *)
(* LegacyAnomalyDetector under their module-level names, with the same text.    *)
(* Only algorithm "zscore" without payload inspection is modelled.              *)

sliding_baseline(values, window) == _sliding_baseline(values, window)

detect_anomalies(timestamps, series, baseline, metric_name, threshold, window_count, stats_fn) ==
    _detect_anomalies(timestamps, series, baseline, metric_name, threshold, window_count, stats_fn)

build_clusters(anomalies) == _build_clusters(anomalies)

\* The outcome of a run: the exit code, what was written to stdout (None, or
\* Some(result)) and the start of what was written to stderr.
Exit(code, stdout, stderr) == [code |-> code, stdout |-> stdout, stderr |-> stderr]

\* main from the construction of `result` on.
MainResult(request, times, series, tag_metrics_list, window, baseline_bytes, found) ==
    IF \E i \in DOMAIN request.packets : ~NumberOk(request.packets[i].length)
    \* float(pkt.get("length", 0)) of "summary" is not guarded: the run ends
    \* with a traceback
    THEN Exit(1, None, "Traceback")
    ELSE Exit(0,
              Some([ metrics |-> [i \in DOMAIN times |->
                                     [ timestamp |-> _isoformat(times[i]),
                                       bytesPerSecond |-> series[i],
                                       tagMetrics |-> tag_metrics_list[i] ]],
                     baseline |-> [i \in 1..Min(Len(times), Len(baseline_bytes)) |->
                                      [ timestamp |-> _isoformat(times[i]),
                                        bytesPerSecond |-> baseline_bytes[i],
                                        tagMetrics |-> << >> ]],
                     anomalies |-> found,
                     summary |-> [ totalPackets |-> Len(request.packets),
                                   totalBytes |-> TotalLength(request.packets),
                                   meanBytesPerSecond |-> Mean(series),
                                   windowSeconds |-> window.seconds,
                                   zThreshold |-> window.threshold ],
                     clusters |-> build_clusters(found),
                     settings |-> [ captureMode |-> "standard",
                                    payloadInspectionEnabled |-> FALSE,
                                    algorithm |-> "zscore",
                                    ewmaAlpha |-> 30 ] ]),
              "")

\* main from the baselines to the tag loop.
MainDetect(request, times, series, tag_metrics_list, window) ==
    MainResult(request, times, series, tag_metrics_list, window,
               sliding_baseline(series, window.count),
               detect_anomalies(times, series, sliding_baseline(series, window.count),
                                "bytesPerSecond", window.threshold, window.count,
                                StatsFn("zscore"))
               \o _detect_tag_anomalies(times, tag_metrics_list, window.count, window.threshold,
                                        "zscore"))

\* window_seconds, z_threshold and window_count of main, for sorted times.
MainWindow(params, diffs) ==
    [ seconds |-> Get(params, "windowSeconds", 60),
      threshold |-> Get(params, "zThreshold", 3),
      count |-> Max(3, RoundDiv(2 * Get(params, "windowSeconds", 60),
                                IF diffs = << >> THEN 2 ELSE Max(2, Median2(diffs)))) ]

\* main once the samples are parsed and sorted by time.
MainSorted(request, paired) ==
    MainDetect(request,
               [i \in DOMAIN paired |-> paired[i].timestamp],
               [i \in DOMAIN paired |-> paired[i].bytesPerSecond],
               [i \in DOMAIN paired |-> paired[i].tagMetrics],
               MainWindow(request.params, Diffs([i \in DOMAIN paired |-> paired[i].timestamp])))

\* main, for the text `stdin`: None when it is not JSON, else Some(request).
main(stdin) ==
    IF stdin = None THEN Exit(1, None, "Invalid JSON")
    ELSE IF stdin[1].metrics = << >> THEN Exit(1, None, "No metrics supplied.")
    ELSE IF \E i \in DOMAIN stdin[1].metrics :
                \/ ~TimestampOk(stdin[1].metrics[i].timestamp)
                \/ ~NumberOk(stdin[1].metrics[i].bytesPerSecond)
    THEN Exit(1, None, "Invalid metric record")
    ELSE MainSorted(stdin[1],
                    SortedBy(stdin[1].metrics,
                             [i \in DOMAIN stdin[1].metrics |-> stdin[1].metrics[i].timestamp]))

-----------------------------------------------------------------------------
(* Requests *)

\* Longest metrics list of a request.
MaxLen == 2

TaggedSample ==
    [ timestamp |-> 0, bytesPerSecond |-> 4,
      tagMetrics |-> << [tagType |-> "destination", tagValue |-> "a", bytes |-> 4096] >> ]
QuietSample == [timestamp |-> 1, bytesPerSecond |-> 0, tagMetrics |-> << >>]
BadTimeSample == [timestamp |-> BadTimestamp, bytesPerSecond |-> 4, tagMetrics |-> << >>]
BadRateSample == [timestamp |-> 2, bytesPerSecond |-> BadNumber, tagMetrics |-> << >>]

Samples == {TaggedSample, QuietSample, BadTimeSample, BadRateSample}

MetricLists == UNION {[1..n -> Samples] : n \in 0..MaxLen}

\* No packets, or one packet whose length float() rejects.
PacketLists == { << >>, << [info |-> "tcp", length |-> BadNumber] >> }

\* controls.detectorParams: no entry, one detector's override, or an override
\* for each of the four detectors that follow the baseline.
NoParams == [identifier \in {} |-> EmptyDict]
OneParam(identifier, override) == [i \in {identifier} |-> override]
AllParams ==
    [identifier \in {"seasonality", "changepoint", "multivariate", "newtalker"} |->
        CASE identifier = "seasonality" -> [minSamples |-> 1]
          [] identifier = "changepoint" -> [minSamples |-> 1]
          [] identifier = "multivariate" -> [minSamples |-> 1, minFeatures |-> 1]
          [] identifier = "newtalker" -> [maxEntries |-> 1]]
ParamChoices ==
    { NoParams,
      OneParam("legacy", [zThreshold |-> 1]),
      OneParam("changepoint", [minSamples |-> 1]),
      AllParams }

\* (controls.alerts, request.alerts)
AlertChoices ==
    { <<None, None>>,
      <<Some([scoreThreshold |-> 5, destinations |-> <<"ui">>]), Some([scoreThreshold |-> 0])>>,
      <<Some([destinations |-> <<"ui">>]), Some([scoreThreshold |-> 0])>>,
      <<None, Some([scoreThreshold |-> 0])>>,
      <<None, Some([scoreThreshold |-> 100])>>,
      <<Some([scoreThreshold |-> 101]), None>> }

Request(m, k, d, o, a) ==
    [ metrics |-> m, packets |-> k, disableDetectors |-> d, detectorParams |-> o,
      controlsAlerts |-> a[1], alerts |-> a[2] ]

\* Every metrics list with: every set of disabled detectors; every override;
\* every alert configuration, with and without the baseline detector; a bad packet.
Requests ==
    {Request(m, << >>, d, NoParams, <<None, None>>) :
        m \in MetricLists, d \in SUBSET Range(Manifest)}
    \cup {Request(m, << >>, {}, o, <<None, None>>) : m \in MetricLists, o \in ParamChoices}
    \cup {Request(m, << >>, d, NoParams, a) :
            m \in MetricLists, d \in {{}, {"legacy"}}, a \in AlertChoices}
    \cup {Request(m, k, {}, NoParams, <<None, None>>) : m \in MetricLists, k \in PacketLists}

\* What analyzer.py reads from stdin: text that is not JSON, or a request.
ScriptParams == {EmptyDict, [windowSeconds |-> 60, zThreshold |-> 3]}

ScriptInputs ==
    {None} \cup {Some([metrics |-> m, packets |-> k, params |-> p]) :
                    m \in MetricLists, k \in PacketLists, p \in ScriptParams}

\* The requests of two overlapping calls.
ConcRequests ==
    {Request(<<TaggedSample>>, << >>, d, o, <<None, None>>) :
        d \in {{}, {"seasonality"}},
        o \in {NoParams, OneParam("changepoint", [minSamples |-> 1])}}

\* round(latency_ms, 3) of a call, in milliseconds
Latencies == {0, 1}

\* Longest sequence of merge_partial calls on one context.
MaxMerges == 3

\* Items of a partial: list values, summaries, and settings as the baseline
\* detector, another detector and the except branch of process supply them.
ListItems == {<<key, <<key \o ToString(n)>>>> : key \in {"metrics", "anomalies"}, n \in {1, 2}}
SummaryItems == {<<"summary", [totalPackets |-> n]>> : n \in {1, 2}}
SettingsItems ==
    { <<"settings", [algorithm |-> "zscore", captureMode |-> "standard"]>>,
      <<"settings", [algorithm |-> "ewma"]>>,
      <<"settings", FailureSettings("legacy", "No metrics supplied")>> }

\* The payloads of merge_partial: one item, or a list and a settings item.
Payloads ==
    {<<item>> : item \in ListItems \cup SummaryItems \cup SettingsItems}
    \cup {<<a, b>> : a \in {<<"baseline", <<"baseline1">>>>, <<"clusters", << >> >>},
                     b \in SettingsItems}

-----------------------------------------------------------------------------
(* The state machine *)

\* Anomaly lists handed to _build_clusters: what the detector's two passes emit
\* (untagged metric anomalies; tag anomalies, whose tagType is a key of the
\* request's tagMetrics), in any order, ids distinct.
MaxAnomalies == 3

AnomalyKinds ==
    { [metric |-> "bytesPerSecond", tagType |-> None, tagValue |-> None],
      [metric |-> "packetsPerSecond", tagType |-> None, tagValue |-> None],
      [metric |-> "bytesPerSecond[protocol]", tagType |-> Some("protocol"), tagValue |-> Some("https")],
      [metric |-> "bytesPerSecond[metric]", tagType |-> Some("metric"),
       tagValue |-> Some("bytesPerSecond")] }

AnomalyScores == {[num |-> 3, den2 |-> 1], [num |-> -4, den2 |-> 1]}

Anomaly(idx, kind, ts, z) ==
    [ id |-> <<"anomaly", "", idx>>, timestamp |-> _isoformat(ts), metric |-> kind.metric,
      value |-> 8, baseline |-> [num |-> 4, den |-> 1], zScore |-> z,
      direction |-> IF z.num >= 0 THEN "spike" ELSE "drop",
      tagType |-> kind.tagType, tagValue |-> kind.tagValue ]

\* The anomaly lists of `n` entries.
AnomalyLists(n) ==
    { [i \in 1..n |-> Anomaly(i, pick[i][1], pick[i][2], pick[i][3])] :
        pick \in [1..n -> AnomalyKinds \X {0, 1} \X AnomalyScores] }

\* Requests for NewTalkerDetector.process called on its own: up to
\* MaxTalkerSamples samples one second apart, given oldest or newest first; in
\* each, destination "a" with 1 or 2 bytes, port "b" and protocol "p" (a tag
\* type the detector does not scan) with 2 bytes, or absent.
MaxTalkerSamples == 3

TalkerTags(a, b, p) ==
    (IF a > 0 THEN <<[tagType |-> "destination", tagValue |-> "a", bytes |-> a]>> ELSE << >>)
    \o (IF b > 0 THEN <<[tagType |-> "port", tagValue |-> "b", bytes |-> b]>> ELSE << >>)
    \o (IF p > 0 THEN <<[tagType |-> "protocol", tagValue |-> "p", bytes |-> p]>> ELSE << >>)

TalkerCalls(n) ==
    { [ status |-> "ready", op |-> "newtalker", out |-> None,
        self |-> [settings |-> [NewTalkerDefaults EXCEPT !.recentWindowSeconds = recent,
                                                         !.minBytes = 2]],
        request |-> [metrics |-> [i \in 1..n |->
                        [ timestamp |-> IF newest_first THEN n - i ELSE i - 1,
                          bytesPerSecond |-> 4,
                          tagMetrics |-> TalkerTags(pick[i][1], pick[i][2], pick[i][3]) ]]] ] :
        pick \in [1..n -> (0..2) \X {0, 2} \X {0, 2}],
        recent \in {1, 180}, newest_first \in BOOLEAN }

\* Requests for ChangePointDetector.process called on its own: n samples
\* `interval` seconds apart with the given rates.
Series(rates, interval) ==
    [metrics |-> [i \in DOMAIN rates |->
                     [timestamp |-> (i - 1) * interval, bytesPerSecond |-> rates[i],
                      tagMetrics |-> << >>]]]

\* The outcomes of rounding a float quotient: exact, or off in the last place.
Roundings == {-1, 0, 1}

\* Short series with windows of two samples: any rates from {0, 1, 3}.
MaxChangeSamples == 7

ChangeCalls(n) ==
    { [ status |-> "ready", op |-> "changepoint", out |-> None,
        self |-> [settings |-> [windowSeconds |-> 2, thresholdStdDevs |-> threshold,
                                minSamples |-> 4, minGapSeconds |-> gap]],
        request |-> Series(rates, 1),
        err |-> err ] :
        rates \in [1..n -> {0, 1, 3}], threshold \in 1..3, gap \in {1, 2}, err \in Roundings }

\* Default settings on one step: `before` samples at one rate, then `after`
\* samples at another.
StepCalls ==
    { [ status |-> "ready", op |-> "changepoint", out |-> None,
        self |-> [settings |-> ChangePointDefaults],
        request |-> Series([i \in 1..(lengths[1] + lengths[2]) |->
                               IF i <= lengths[1] THEN levels[1] ELSE levels[2]], interval),
        err |-> err ] :
        lengths \in {<<120, 60>>, <<60, 120>>},
        levels \in {<<40, 160>>, <<2, 1>>}, interval \in {1}, err \in Roundings }

\* Requests for MultivariateDetector.process called on its own: samples one
\* second apart, each with one of four (bytesPerSecond, packetsPerSecond)
\* pairs and no flowsPerSecond; windows of five samples.
MaxJointSamples == 6

JointCalls(n) ==
    { [ status |-> "ready", op |-> "multivariate", out |-> None,
        self |-> [settings |-> [windowSeconds |-> 5, threshold |-> threshold,
                                minSamples |-> 6, minFeatures |-> 2]],
        request |-> [metrics |-> [i \in 1..n |->
                        [timestamp |-> i - 1, bytesPerSecond |-> rates[i][1],
                         packetsPerSecond |-> rates[i][2], tagMetrics |-> << >>]]] ] :
        rates \in [1..n -> {<<0, 0>>, <<1, 0>>, <<1, 1>>, <<2, 1>>}], threshold \in {1, 3} }

\* The untagged pass of LegacyAnomalyDetector.process on its own: up to
\* MaxDetectSamples samples one second apart with any rates from {0, 1, 3},
\* windows of three or four samples, under each algorithm.
MaxDetectSamples == 6

DetectCalls(n) ==
    { [ status |-> "ready", op |-> "detect", out |-> None,
        params |-> [algorithm |-> algorithm, windowSeconds |-> 3, zThreshold |-> threshold,
                    ewmaAlpha |-> [num |-> 1, den |-> 2]],
        times |-> [i \in 1..n |-> i - 1],
        series |-> rates,
        window_count |-> window_count ] :
        rates \in [1..n -> {0, 1, 3}], threshold \in {1, 2}, window_count \in {3, 4},
        algorithm \in {"zscore", "mad", "ewma"} }

\* The tag pass of LegacyAnomalyDetector.process, sample by sample, with
\* windows of three samples: up to MaxTagSamples samples are taken.
MaxTagSamples == 13

TagCalls ==
    { [ status |-> "running", op |-> "tags", out |-> << >>,
        algorithm |-> algorithm, z_threshold |-> 1, window_count |-> 3,
        tag_metrics_list |-> << >>, tag_history |-> EmptyDict ] :
        algorithm \in {"zscore", "mad"} }

\* The tagMetrics of the sample at `idx` (1-based): destination "a" with
\* `bytes`, and in every fourth sample port "b" as well.
TagSample(idx, bytes) ==
    << [tagType |-> "destination", tagValue |-> "a", bytes |-> bytes] >>
    \o (IF idx % 4 = 0 THEN << [tagType |-> "port", tagValue |-> "b", bytes |-> idx] >>
        ELSE << >>)

\* LegacyAnomalyDetector.process on one quiet sample and up to MaxPackets
\* packets, with payload inspection on, off, and no payloadConfig at all.  A
\* packet has one of five info texts and a length of 0 or 7; one has a
\* negative length and one a length float() rejects.
MaxPackets == 3

Packets ==
    { [info |-> info, length |-> length] :
        info \in {"TLS Client Hello", "TLS Server Hello", "GET / HTTP/1.1", "HTTP/1.1 200 OK", "tcp"},
        length \in {0, 7} }
    \cup { [info |-> "tcp", length |-> -2], [info |-> "TLS Client Hello", length |-> BadNumber] }

PayloadCalls(n) ==
    { [ status |-> "ready", op |-> "payload", out |-> None,
        self |-> [defaults |-> LegacyDefaults],
        request |-> [metrics |-> <<QuietSample>>, packets |-> packets,
                     payloadConfig |-> [payloadInspectionEnabled |-> enabled]] ] :
        packets \in [1..n -> Packets], enabled \in BOOLEAN }
    \cup { [ status |-> "ready", op |-> "payload", out |-> None,
             self |-> [defaults |-> LegacyDefaults],
             request |-> [metrics |-> <<QuietSample>>, packets |-> packets] ] :
             packets \in [1..n -> Packets] }

Pipelines == {1, 2}
Threads == {1, 2}

IdleCall == [status |-> "idle"]
NotRun == [status |-> "idle"]

Init ==
    /\ detectors = [p \in Pipelines |-> NewPipeline]
    /\ calls = [t \in Threads |-> IdleCall]
    /\ context = NewContext
    /\ partials = << >>
    /\ clusterInput = << >>
    /\ clusterOutput = None
    /\ script = NotRun
    /\ unit = NotRun

\* AnalyzerPipeline.process, start to return, by thread t on pipeline p.
Process(t, p, request, latency_ms) ==
    /\ calls[t].status = "idle"
    /\ \E run \in {RunLoop(detectors[p], request)} :
          /\ detectors' = [detectors EXCEPT ![p] = run.pipeline]
          /\ calls' = [calls EXCEPT ![t] =
                          [ status |-> "done", pipeline |-> p, request |-> request,
                            index |-> Len(Manifest) + 1, trace |-> run.trace,
                            during |-> [i \in DOMAIN run.trace |-> {}], latency |-> latency_ms,
                            response |-> Respond(run.ctx, request, latency_ms) ]]
    /\ UNCHANGED besidePipeline

\* The caller takes the response; the thread may call again.
Return(t) ==
    /\ calls[t].status = "done"
    /\ calls' = [calls EXCEPT ![t] = IdleCall]
    /\ UNCHANGED besideCalls

\* process up to its loop: thread t enters process(request) on pipeline p.
StartCall(t, p, request) ==
    /\ calls[t].status = "idle"
    /\ calls' = [calls EXCEPT ![t] =
                    [ status |-> "running", pipeline |-> p, request |-> request,
                      index |-> 1, ctx |-> StartContext(request), trace |-> << >>,
                      during |-> << >> ]]
    /\ UNCHANGED besideCalls

\* One iteration of process's loop by thread t.  `during` notes, for each
\* dispatch, the other threads that were inside process at that moment.
Dispatch(t) ==
    /\ calls[t].status = "running"
    /\ calls[t].index <= Len(Manifest)
    /\ \E it \in {LoopIteration(detectors[calls[t].pipeline], calls[t].request, calls[t].ctx,
                                calls[t].trace, calls[t].index)} :
          LET others == {u \in Threads \ {t} : calls[u].status = "running"}
          IN /\ detectors' = [detectors EXCEPT ![calls[t].pipeline] = it.pipeline]
             /\ calls' = [calls EXCEPT ![t].index = @ + 1,
                                       ![t].ctx = it.ctx,
                                       ![t].trace = it.trace,
                                       ![t].during = IF Len(it.trace) > Len(calls[t].trace)
                                                     THEN Append(@, others) ELSE @]
    /\ UNCHANGED besidePipeline

\* process after its loop: backfill, alerts, serialize.
Finish(t, latency_ms) ==
    /\ calls[t].status = "running"
    /\ calls[t].index > Len(Manifest)
    /\ calls' = [calls EXCEPT ![t] =
                    [ status |-> "done", pipeline |-> calls[t].pipeline,
                      request |-> calls[t].request, index |-> calls[t].index,
                      trace |-> calls[t].trace,
                      during |-> calls[t].during, latency |-> latency_ms,
                      response |-> Respond(calls[t].ctx, calls[t].request, latency_ms) ]]
    /\ UNCHANGED besideCalls

\* context.merge_partial(payload), called on a context directly.
Merge(payload) ==
    /\ Len(partials) < MaxMerges
    /\ context' = merge_partial(context, payload)
    /\ partials' = Append(partials, payload)
    /\ UNCHANGED besideMerge

\* LegacyAnomalyDetector._build_clusters(clusterInput), called on its own.
BuildClusters ==
    /\ clusterOutput = None
    /\ clusterOutput' = Some(_build_clusters(clusterInput))
    /\ UNCHANGED <<clusterInput, besideClusters>>

\* One run of analyzer.py on the text it was started with.
RunMain ==
    /\ script.status = "started"
    /\ script' = [status |-> "exited", stdin |-> script.stdin, exit |-> main(script.stdin)]
    /\ UNCHANGED besideScript

\* NewTalkerDetector.process called on a fresh context.
RunNewTalker ==
    /\ unit.status = "ready"
    /\ unit.op = "newtalker"
    /\ unit' = [unit EXCEPT !.status = "done",
                            !.out = NewTalkerProcess(unit.self, unit.request, NewContext)]
    /\ UNCHANGED besideUnit

\* ChangePointDetector.process called on a fresh context.
RunChangePoint ==
    /\ unit.status = "ready"
    /\ unit.op = "changepoint"
    /\ unit' = [unit EXCEPT !.status = "done",
                            !.out = ChangePointRun(unit.self, unit.request, NewContext, unit.err)]
    /\ UNCHANGED besideUnit

\* MultivariateDetector.process called on a fresh context.
RunMultivariate ==
    /\ unit.status = "ready"
    /\ unit.op = "multivariate"
    /\ unit' = [unit EXCEPT !.status = "done",
                            !.out = MultivariateProcess(unit.self, unit.request, NewContext)]
    /\ UNCHANGED besideUnit

\* The untagged pass of LegacyAnomalyDetector.process for one series.
RunDetect ==
    /\ unit.status = "ready"
    /\ unit.op = "detect"
    /\ unit' = [unit EXCEPT !.status = "done",
                            !.out = SeriesAnomalies(unit.params, unit.times, unit.series,
                                                    "bytesPerSecond", unit.window_count).anomalies]
    /\ UNCHANGED besideUnit

\* LegacyAnomalyDetector.process called on a fresh context.
RunLegacy ==
    /\ unit.status = "ready"
    /\ unit.op = "payload"
    /\ unit' = [unit EXCEPT !.status = "done",
                            !.out = LegacyProcess(unit.self, unit.request, NewContext)]
    /\ UNCHANGED besideUnit

\* One pass of the loop over samples of _detect_tag_anomalies: the entries of
\* the next sample are appended to their histories and tested.
TagSampleStep ==
    /\ unit.status = "running"
    /\ unit.op = "tags"
    /\ Len(unit.tag_metrics_list) < MaxTagSamples
    /\ \E bytes \in {1, 3} :
          LET idx == Len(unit.tag_metrics_list) + 1
              observations ==
                  [k \in DOMAIN TagSample(idx, bytes) |->
                      [idx |-> idx, tagType |-> TagSample(idx, bytes)[k].tagType,
                       tagValue |-> TagSample(idx, bytes)[k].tagValue,
                       bytes |-> TagSample(idx, bytes)[k].bytes]]
          IN unit' = [unit EXCEPT
                        !.tag_metrics_list = Append(@, TagSample(idx, bytes)),
                        !.tag_history = Histories(observations, @, unit.window_count),
                        !.out = @ \o TagPass([i \in 1..idx |-> i - 1], observations,
                                             unit.tag_history, unit.window_count,
                                             unit.z_threshold, StatsFn(unit.algorithm))]
    /\ UNCHANGED besideUnit

\* One caller, one pipeline: calls follow one another.
Next ==
    \/ \E request \in Requests, latency_ms \in Latencies : Process(1, 1, request, latency_ms)
    \/ Return(1)

Spec == Init /\ [][Next]_vars

\* Two callers whose calls overlap, on one pipeline or on two.
NextConc ==
    \/ \E t \in Threads, p \in Pipelines, request \in ConcRequests : StartCall(t, p, request)
    \/ \E t \in Threads : Dispatch(t)
    \/ \E t \in Threads, latency_ms \in Latencies : Finish(t, latency_ms)

SpecConc == Init /\ [][NextConc]_vars

\* Any sequence of merge_partial calls on one context.
NextMerge == \E payload \in Payloads : Merge(payload)

SpecMerge == Init /\ [][NextMerge]_vars

\* analyzer.py started on any input.
InitScript ==
    /\ detectors = [p \in Pipelines |-> NewPipeline]
    /\ calls = [t \in Threads |-> IdleCall]
    /\ context = NewContext
    /\ partials = << >>
    /\ clusterInput = << >>
    /\ clusterOutput = None
    /\ script \in {[status |-> "started", stdin |-> stdin] : stdin \in ScriptInputs}
    /\ unit = NotRun

NextScript == RunMain

SpecScript == InitScript /\ [][NextScript]_vars

\* A detector method called on its own: the pipeline, the merges, the
\* clusters and the script stay as constructed.
InitBench ==
    /\ detectors = [p \in Pipelines |-> NewPipeline]
    /\ calls = [t \in Threads |-> IdleCall]
    /\ context = NewContext
    /\ partials = << >>
    /\ clusterInput = << >>
    /\ clusterOutput = None
    /\ script = NotRun

\* NewTalkerDetector.process on any request of up to MaxTalkerSamples samples.
InitTalkers == InitBench /\ \E n \in 0..MaxTalkerSamples : unit \in TalkerCalls(n)

NextTalkers == RunNewTalker

SpecTalkers == InitTalkers /\ [][NextTalkers]_vars

\* ChangePointDetector.process on any short series and on steps.
InitChange ==
    /\ InitBench
    /\ \/ \E n \in 4..MaxChangeSamples : unit \in ChangeCalls(n)
       \/ unit \in StepCalls

NextChange == RunChangePoint

SpecChange == InitChange /\ [][NextChange]_vars

\* The baseline detector: its two passes on any series, and the whole of
\* process on any packets.
InitBaseline ==
    /\ InitBench
    /\ \/ \E n \in 1..MaxDetectSamples : unit \in DetectCalls(n)
       \/ unit \in TagCalls
       \/ \E n \in 0..MaxPackets : unit \in PayloadCalls(n)

NextBaseline ==
    \/ RunDetect
    \/ TagSampleStep
    \/ RunLegacy

SpecBaseline == InitBaseline /\ [][NextBaseline]_vars

\* MultivariateDetector.process on any series of two features.
InitJoint == InitBench /\ \E n \in 6..MaxJointSamples : unit \in JointCalls(n)

NextJoint == RunMultivariate

SpecJoint == InitJoint /\ [][NextJoint]_vars

\* _build_clusters applied to any anomaly list.
InitClusters ==
    /\ detectors = [p \in Pipelines |-> NewPipeline]
    /\ calls = [t \in Threads |-> IdleCall]
    /\ context = NewContext
    /\ partials = << >>
    /\ \E n \in 0..MaxAnomalies : clusterInput \in AnomalyLists(n)
    /\ clusterOutput = None
    /\ script = NotRun
    /\ unit = NotRun

NextClusters == BuildClusters

SpecClusters == InitClusters /\ [][NextClusters]_vars

-----------------------------------------------------------------------------
(* Properties *)

Done(t) == calls[t].status = "done"
Entered(t) == calls[t].status \in {"running", "done"}
Advanced(t) == calls[t].response["advancedDetection"]
Dispatched(t) == [i \in DOMAIN calls[t].trace |-> calls[t].trace[i].detector]
Enabled(request) == SelectSeq(Manifest, LAMBDA identifier : identifier \notin request.disableDetectors)
ScoredBy(t) == [i \in DOMAIN Advanced(t).scores |-> Advanced(t).scores[i].detector]
PositionOf(identifier) == CHOOSE i \in DOMAIN Manifest : Manifest[i] = identifier
AlertEvents(t) ==
    IF "alerts" \in DOMAIN Advanced(t) THEN Advanced(t)["alerts"].events ELSE << >>

C2_OverrideDoesNotPersist ==
    \A t \in Threads : Done(t) =>
        \A i \in DOMAIN calls[t].trace :
            LET e == calls[t].trace[i]
            IN DOMAIN e.override = {} => e.used = SettingsOf(NewDetector(e.detector))

\* C3: a detector serving one call never reads a settings value that is the
\* override of another call that was executing at the same time, unless its
\* own call or the manifest gives that value.
C3_NoBleedAcrossConcurrentCalls ==
    \A t \in Threads : Entered(t) =>
        \A i \in DOMAIN calls[t].trace :
            LET e == calls[t].trace[i]
            IN \A u \in calls[t].during[i] :
                 LET theirs == Get(calls[u].request.detectorParams, e.detector, EmptyDict)
                 IN \A k \in DOMAIN theirs \cap DOMAIN e.used :
                        e.used[k] = theirs[k] =>
                            \/ k \in DOMAIN e.override /\ e.override[k] = theirs[k]
                            \/ SettingsOf(NewDetector(e.detector))[k] = theirs[k]

ResultSections(identifier) ==
    CASE identifier = "legacy" -> {"payloadSummary"}
      [] identifier = "seasonality" -> {"seasonality"}
      [] identifier = "changepoint" -> {"changePoints", "changePointDiagnostics"}
      [] identifier = "multivariate" -> {"multivariateScores", "multivariateDiagnostics"}
      [] identifier = "newtalker" -> {"newTalkers", "newTalkerDiagnostics"}
AdvancedSections(identifier) ==
    CASE identifier = "legacy" -> {}
      [] identifier = "seasonality" -> {"seasonality"}
      [] identifier = "changepoint" -> {"changePoints", "changePointDiagnostics"}
      [] identifier = "multivariate" -> {"multivariate"}
      [] identifier = "newtalker" -> {"newTalkers"}

\* C5: a detector listed in controls.disableDetectors is not dispatched: the
\* response has no component score of it, every reason code belongs to a
\* component score of another detector, none of its sections is present, no
\* alert event names it, and every other detector is dispatched.
C5_DisabledDetectorLeavesNoTrace ==
    \A t \in Threads : Done(t) =>
        \A identifier \in calls[t].request.disableDetectors :
            LET response == calls[t].response
                scores == Advanced(t).scores
            IN /\ \A i \in DOMAIN calls[t].trace : calls[t].trace[i].detector # identifier
               /\ \A k \in DOMAIN scores : scores[k].detector # identifier
               /\ \A r \in DOMAIN Advanced(t).reasonCodes :
                      \E k \in DOMAIN scores :
                          \E j \in DOMAIN scores[k].reasonCodes :
                              scores[k].reasonCodes[j] = Advanced(t).reasonCodes[r]
               /\ ResultSections(identifier) \cap DOMAIN response = {}
               /\ AdvancedSections(identifier) \cap DOMAIN Advanced(t) = {}
               /\ identifier = "seasonality" => Advanced(t).seasonalityConfidence = None
               /\ identifier = "legacy" =>
                      ("settings" \in DOMAIN response =>
                           "algorithm" \notin DOMAIN response["settings"])
               /\ ("detector:" \o identifier) \notin
                      (IF "settings" \in DOMAIN response THEN DOMAIN response["settings"] ELSE {})
               /\ \A k \in DOMAIN AlertEvents(t) : AlertEvents(t)[k].detector # identifier
               /\ Dispatched(t) = Enabled(calls[t].request)

\* A call has returned with the baseline detector disabled, the other four
\* detectors dispatched and an alert event for each of their scores.
C5_Witness ==
    \E t \in Threads :
        /\ Done(t)
        /\ calls[t].request.disableDetectors = {"legacy"}
        /\ Len(calls[t].trace) = Len(Manifest) - 1
        /\ Len(AlertEvents(t)) = Len(Manifest) - 1

\* Requests the baseline detector rejects.
Malformed(request) ==
    \/ request.metrics = << >>
    \/ /\ "legacy" \notin request.disableDetectors
       /\ \E i \in DOMAIN request.metrics :
              \/ ~TimestampOk(request.metrics[i].timestamp)
              \/ ~NumberOk(request.metrics[i].bytesPerSecond)

\* C6: a request with no metrics, or with a metric entry the baseline
\* detector rejects, produces no result.
C6_MalformedRequestIsFatal ==
    \A t \in Threads : Done(t) => ~Malformed(calls[t].request)

\* C7: the alert events correspond one to one, in order, to the component
\* scores with score >= scoreThreshold (of controls.alerts, else of the
\* top-level alerts, else 0.9): same detector and score, severity "critical"
\* iff score >= scoreThreshold + 0.2 and "warning" otherwise.
C7_AlertsMatchScores ==
    \A t \in Threads : Done(t) =>
        LET threshold == Get(AlertsConfig(calls[t].request), "scoreThreshold", 90)
            above == SelectSeq(Advanced(t).scores, LAMBDA entry : entry.score >= threshold)
            events == AlertEvents(t)
        IN /\ Len(events) = Len(above)
           /\ \A i \in DOMAIN events :
                  /\ events[i].detector = above[i].detector
                  /\ events[i].score = above[i].score
                  /\ events[i].severity \in {"critical", "warning"}
                  /\ events[i].severity = "critical" <=> above[i].score >= threshold + 20

\* A response with a critical event, a warning event and a component score
\* below the threshold.
C7_Witness ==
    \E t \in Threads :
        /\ Done(t)
        /\ \E i \in DOMAIN AlertEvents(t) : AlertEvents(t)[i].severity = "critical"
        /\ \E i \in DOMAIN AlertEvents(t) : AlertEvents(t)[i].severity = "warning"
        /\ Len(AlertEvents(t)) < Len(Advanced(t).scores)

\* C8: at every point of a call the detectors dispatched so far are the
\* manifest entries passed so far that are not disabled, in manifest order;
\* what each returned is already merged into the context; and the detector
\* ids of advancedDetection.scores are in manifest order.
C8_ManifestOrder ==
    \A t \in Threads : Entered(t) =>
        LET call == calls[t]
            passed == SubSeq(Manifest, 1, call.index - 1)
        IN /\ Dispatched(t) =
                  SelectSeq(passed, LAMBDA identifier :
                                        identifier \notin call.request.disableDetectors)
           /\ call.status = "running" =>
                  \A i \in DOMAIN call.trace :
                      /\ \A j \in DOMAIN call.trace[i].merged :
                             call.trace[i].merged[j] \in DOMAIN call.ctx.result
                      /\ \E k \in DOMAIN call.ctx.component_scores :
                             call.ctx.component_scores[k].detector = call.trace[i].detector
           /\ Done(t) =>
                  /\ {ScoredBy(t)[k] : k \in DOMAIN ScoredBy(t)} = Range(Dispatched(t))
                  /\ \A a, b \in DOMAIN ScoredBy(t) :
                         a < b => PositionOf(ScoredBy(t)[a]) <= PositionOf(ScoredBy(t)[b])

\* A call that overlapped another one has returned with seasonality disabled
\* and the other four detectors scored.
C8_Witness ==
    \E t \in Threads :
        /\ Done(t)
        /\ calls[t].request.disableDetectors = {"seasonality"}
        /\ ScoredBy(t) = <<"legacy", "changepoint", "multivariate", "newtalker">>
        /\ \E i \in DOMAIN calls[t].during : calls[t].during[i] # {}

\* C9: the response to a request is the response a freshly constructed
\* pipeline gives to it (with the same processing latency).
C9_Stateless ==
    \A t \in Threads : Done(t) =>
        calls[t].response =
            Respond(RunLoop(NewPipeline, calls[t].request).ctx, calls[t].request, calls[t].latency)

\* C10: a detector dispatched with a detectorParams entry runs with its prior
\* settings overlaid by the entry.
C10_OverrideIsMerged ==
    \A t \in Threads : Done(t) =>
        \A i \in DOMAIN calls[t].trace :
            LET e == calls[t].trace[i]
            IN DOMAIN e.override # {} => e.used = Update(e.prior, e.override)

\* The items of the payloads merged so far, in call order, and those of a key.
RECURSIVE Flatten(_)
Flatten(payloads) ==
    IF payloads = << >> THEN << >> ELSE Head(payloads) \o Flatten(Tail(payloads))
Supplied(key) == SelectSeq(Flatten(partials), LAMBDA item : item[1] = key)
RECURSIVE Concat(_)
Concat(items) == IF items = << >> THEN << >> ELSE Head(items)[2] \o Concat(Tail(items))

C12_BaselineAlignsWithMetrics ==
    \A t \in Threads : Done(t) =>
        LET response == calls[t].response
        IN /\ "metrics" \in DOMAIN response <=> "baseline" \in DOMAIN response
           /\ "metrics" \in DOMAIN response =>
                  /\ Len(response["baseline"]) = Len(response["metrics"])
                  /\ Len(response["metrics"]) = Len(calls[t].request.metrics)
                  /\ \A i \in DOMAIN response["metrics"] :
                         response["baseline"][i].timestamp = response["metrics"][i].timestamp

\* The baseline detector produced both lists from two samples given out of
\* order.
C12_Witness ==
    \E t \in Threads :
        /\ Done(t)
        /\ calls[t].trace # << >>
        /\ calls[t].trace[1].detector = "legacy"
        /\ ~calls[t].trace[1].raised
        /\ Len(calls[t].response["baseline"]) = 2
        /\ calls[t].request.metrics[1].timestamp > calls[t].request.metrics[2].timestamp

-----------------------------------------------------------------------------
\* _build_clusters as a partition of its input.

Built == clusterOutput # None

\* The places (cluster, position) of the returned clusters that hold the id.
Holders(id) ==
    {<<c, k>> \in (DOMAIN clusterOutput[1]) \X (1..(MaxAnomalies + 1)) :
        /\ k \in DOMAIN clusterOutput[1][c].anomalyIDs
        /\ clusterOutput[1][c].anomalyIDs[k] = id}

ClusterOf(id) == {holder[1] : holder \in Holders(id)}

\* Two anomalies share (tagType, tagValue), or are both untagged with one metric.
Related(a, b) ==
    IF a.tagType # None \/ b.tagType # None
    THEN a.tagType = b.tagType /\ a.tagValue = b.tagValue
    ELSE a.metric = b.metric

\* C13: _build_clusters partitions its input: every anomaly id is in the
\* anomalyIDs of exactly one cluster; two anomalies are in the same cluster
\* exactly when they share (tagType, tagValue) or, both untagged, the same metric;
\* and each cluster's totalAnomalies is the number of its anomalyIDs.
C13_ClustersPartitionInput ==
    Built =>
        /\ \A i \in DOMAIN clusterInput : Cardinality(Holders(clusterInput[i].id)) = 1
        /\ \A i, j \in DOMAIN clusterInput :
              (ClusterOf(clusterInput[i].id) = ClusterOf(clusterInput[j].id))
                  <=> Related(clusterInput[i], clusterInput[j])
        /\ \A c \in DOMAIN clusterOutput[1] :
              clusterOutput[1][c].totalAnomalies = Len(clusterOutput[1][c].anomalyIDs)

-----------------------------------------------------------------------------
\* The new-talker entries of a response.

\* The trace entries of call t for one detector (at most one).
TraceOf(t, identifier) ==
    SelectSeq(calls[t].trace, LAMBDA entry : entry.detector = identifier)

\* The top-level newTalkers list and advancedDetection.newTalkers.entries.
TopTalkers(t) == Get(calls[t].response, "newTalkers", << >>)
AdvancedTalkers(t) ==
    IF "newTalkers" \in DOMAIN Advanced(t) THEN Advanced(t)["newTalkers"].entries ELSE << >>

\* C14: the new-talker entries of a response, top-level and under
\* advancedDetection, number at most maxEntries, and exactly as many as the
\* newTalkerDiagnostics.returned reported with them.
C14_NewTalkersAreCapped ==
    \A t \in Threads : Done(t) =>
        \A i \in DOMAIN TraceOf(t, "newtalker") :
            ~TraceOf(t, "newtalker")[i].raised =>
                /\ Len(TopTalkers(t)) <= TraceOf(t, "newtalker")[i].used.maxEntries
                /\ Len(AdvancedTalkers(t)) <= TraceOf(t, "newtalker")[i].used.maxEntries
                /\ Len(TopTalkers(t)) = calls[t].response["newTalkerDiagnostics"].returned
                /\ Len(AdvancedTalkers(t)) = Advanced(t)["newTalkers"].diagnostics[1].returned

-----------------------------------------------------------------------------
\* The order of the response's samples.

\* Every sample of the request carries a timestamp that parses.
Dated(request) == \A i \in DOMAIN request.metrics : TimestampOk(request.metrics[i].timestamp)

NonDecreasing(entries) ==
    \A i, j \in DOMAIN entries : i < j => entries[i].timestamp <= entries[j].timestamp

\* C15: whatever the order of the request's samples, the response's metrics and
\* baseline are in non-decreasing timestamp order, backfilled or not.
C15_SamplesAreTimeOrdered ==
    \A t \in Threads : Done(t) /\ Dated(calls[t].request) =>
        \A key \in {"metrics", "baseline"} :
            key \in DOMAIN calls[t].response => NonDecreasing(calls[t].response[key])

-----------------------------------------------------------------------------
\* The baseline detector's component score.

\* The component scores of call t recorded for one detector.
ScoresOf(t, identifier) ==
    SelectSeq(Advanced(t).scores, LAMBDA entry : entry.detector = identifier)

\* C16: whenever the baseline detector is dispatched, the component scores of
\* the call hold an entry for it with score 1.0 and label "baseline-analyzer".
C16_BaselineAlwaysScores ==
    \A t \in Threads : Done(t) /\ TraceOf(t, "legacy") # << >> =>
        \E i \in DOMAIN ScoresOf(t, "legacy") :
            /\ ScoresOf(t, "legacy")[i].score = ScoreScale
            /\ ScoresOf(t, "legacy")[i].label = "baseline-analyzer"

-----------------------------------------------------------------------------
\* The seasonality detector on short requests.

\* Call t dispatched the seasonality detector on fewer samples than the
\* minSamples the detector then had.
TooShort(t) ==
    /\ Done(t)
    /\ TraceOf(t, "seasonality") # << >>
    /\ Len(calls[t].request.metrics) < TraceOf(t, "seasonality")[1].used.minSamples

\* C17: with fewer than minSamples samples the seasonality detector skips
\* itself: its score is 0 with reason code "seasonality.insufficient-data",
\* the response has no seasonality section, top-level or under
\* advancedDetection, and advancedDetection.seasonalityConfidence is null.
C17_ShortRequestSkipsSeasonality ==
    \A t \in Threads : TooShort(t) =>
        /\ Len(ScoresOf(t, "seasonality")) = 1
        /\ ScoresOf(t, "seasonality")[1].score = 0
        /\ ScoresOf(t, "seasonality")[1].reasonCodes = <<"seasonality.insufficient-data">>
        /\ "seasonality.insufficient-data" \in Range(Advanced(t).reasonCodes)
        /\ "seasonality" \notin DOMAIN calls[t].response
        /\ "seasonality" \notin DOMAIN Advanced(t)
        /\ Advanced(t).seasonalityConfidence = None

\* A call with two samples, fewer than the default minSamples of 60, has
\* returned.
C17_Witness ==
    \E t \in Threads :
        /\ TooShort(t)
        /\ Len(calls[t].request.metrics) = 2
        /\ TraceOf(t, "seasonality")[1].used.minSamples = 60

-----------------------------------------------------------------------------
\* The standalone script.

\* The run has exited, on a request whose samples and packets all parse and
\* that has at least one sample.
RanOnValidRequest ==
    /\ script.status = "exited"
    /\ script.stdin # None
    /\ script.stdin[1].metrics # << >>
    /\ Dated(script.stdin[1])
    /\ \A i \in DOMAIN script.stdin[1].metrics : NumberOk(script.stdin[1].metrics[i].bytesPerSecond)
    /\ \A i \in DOMAIN script.stdin[1].packets : NumberOk(script.stdin[1].packets[i].length)

\* C18: analyzer.py run on a valid request with at least one metric exits 0
\* and prints a response whose metrics and baseline have the input's length
\* and which contains an advancedDetection envelope.
C18_ScriptPrintsEnvelope ==
    RanOnValidRequest =>
        /\ script.exit.code = 0
        /\ script.exit.stdout # None
        /\ Len(script.exit.stdout[1].metrics) = Len(script.stdin[1].metrics)
        /\ Len(script.exit.stdout[1].baseline) = Len(script.stdin[1].metrics)
        /\ "advancedDetection" \in DOMAIN script.exit.stdout[1]

-----------------------------------------------------------------------------
\* The accumulators of the change-point, multivariate and new-talker detectors.

\* The list a detector returned under `key` in call t (empty when it returned
\* none, raised or was not dispatched).
Produced(t, identifier, key) ==
    LET items == IF TraceOf(t, identifier) = << >> THEN << >>
                 ELSE SelectSeq(TraceOf(t, identifier)[1].partial, LAMBDA item : item[1] = key)
    IN IF items = << >> THEN << >> ELSE items[1][2]

\* advancedDetection.changePoints and advancedDetection.multivariate.scores.
AdvancedChangePoints(t) == Get(Advanced(t), "changePoints", << >>)
AdvancedJointScores(t) ==
    IF "multivariate" \in DOMAIN Advanced(t) THEN Advanced(t)["multivariate"].scores ELSE << >>

\* The entries are the detections, once each.
OnceEach(entries, detections) ==
    /\ Len(entries) = Len(detections)
    /\ \A i, j \in DOMAIN entries : i # j => entries[i].id # entries[j].id

\* C19: every detection of the change-point, multivariate and new-talker
\* detectors is in its accumulator exactly once: in advancedDetection and in
\* the top-level mirrors the ids are pairwise distinct and each list is as
\* long as the list of detections the detector produced in the call.
C19_DetectionsAppearOnce ==
    \A t \in Threads : Done(t) =>
        /\ OnceEach(AdvancedChangePoints(t), Produced(t, "changepoint", "changePoints"))
        /\ OnceEach(Get(calls[t].response, "changePoints", << >>),
                    Produced(t, "changepoint", "changePoints"))
        /\ OnceEach(AdvancedJointScores(t), Produced(t, "multivariate", "multivariateScores"))
        /\ OnceEach(Get(calls[t].response, "multivariateScores", << >>),
                    Produced(t, "multivariate", "multivariateScores"))
        /\ OnceEach(AdvancedTalkers(t), Produced(t, "newtalker", "newTalkers"))
        /\ OnceEach(TopTalkers(t), Produced(t, "newtalker", "newTalkers"))

-----------------------------------------------------------------------------
\* One component score per dispatched detector.

\* C20: each detector dispatched in a call contributes exactly one entry to
\* advancedDetection.scores, whether it succeeds, skips itself or raises; the
\* entry of a detector that raised is its "detector-failure" entry, with no
\* success score next to it.
C20_OneScorePerDetector ==
    \A t \in Threads : Done(t) =>
        \A i \in DOMAIN calls[t].trace :
            /\ Len(ScoresOf(t, calls[t].trace[i].detector)) = 1
            /\ calls[t].trace[i].raised =>
                   ScoresOf(t, calls[t].trace[i].detector)[1].label = "detector-failure"

-----------------------------------------------------------------------------
\* Which tags the new-talker detector reports.

\* The call of `op` on its own has returned.
Ran(op) == unit.status = "done" /\ unit.op = op

\* The samples (positions in the request) that carry the tag, and those that
\* carry any tag of a scanned type.
Carrying(tag) ==
    {i \in DOMAIN unit.request.metrics :
        \E k \in DOMAIN unit.request.metrics[i].tagMetrics :
            /\ unit.request.metrics[i].tagMetrics[k].tagType = tag[1]
            /\ unit.request.metrics[i].tagMetrics[k].tagValue = tag[2]}

ScannedTags == {"destination", "process", "port"} \X {"a", "b", "p"}

SeenAt(samples) == {unit.request.metrics[i].timestamp : i \in samples}

\* The bytes of the tag in sample i.
TagBytes(tag, i) ==
    LET tags == unit.request.metrics[i].tagMetrics
        k == CHOOSE k \in DOMAIN tags : tags[k].tagType = tag[1] /\ tags[k].tagValue = tag[2]
    IN tags[k].bytes

RECURSIVE SummedBytes(_, _)
SummedBytes(tag, samples) ==
    IF samples = {} THEN 0
    ELSE LET i == CHOOSE i \in samples : TRUE
         IN TagBytes(tag, i) + SummedBytes(tag, samples \ {i})

\* The end of the series: the last time any scanned tag was seen.
SeriesEnd ==
    CHOOSE t \in SeenAt(UNION {Carrying(tag) : tag \in ScannedTags}) :
        \A u \in SeenAt(UNION {Carrying(tag) : tag \in ScannedTags}) : u <= t

FirstAppearance(tag) ==
    CHOOSE t \in SeenAt(Carrying(tag)) : \A u \in SeenAt(Carrying(tag)) : t <= u

\* The condition of C21 on a tag that occurs in the request.
QualifiesAsNewTalker(tag) ==
    /\ SummedBytes(tag, Carrying(tag)) >= unit.self.settings.minBytes
    /\ \/ FirstAppearance(tag) >= SeriesEnd - unit.self.settings.recentWindowSeconds
       \/ Cardinality(Carrying(tag)) <= 1

\* The (tagType, tagValue) pairs the detector returned.
ReportedTalkers ==
    LET items == SelectSeq(unit.out.partial, LAMBDA item : item[1] = "newTalkers")
    IN IF items = << >> THEN {}
       ELSE {<<items[1][2][i].tagType, items[1][2][i].tagValue>> : i \in DOMAIN items[1][2]}

\* C21: a (tagType, tagValue) with tagType in {destination, process, port}
\* is reported as a new talker iff its summed bytes are >= minBytes and it
\* first appeared at or after seriesEnd - recentWindowSeconds or appeared in
\* at most one sample; no other tag is reported.
C21_NewTalkerQualification ==
    Ran("newtalker") =>
        ReportedTalkers = {tag \in ScannedTags : Carrying(tag) # {} /\ QualifiesAsNewTalker(tag)}

\* Over three samples, port "b" is in the first two (old, in more than one
\* sample) and is not reported, while destination "a", new in the last sample,
\* is.
C21_Witness ==
    /\ Ran("newtalker")
    /\ unit.self.settings.recentWindowSeconds = 1
    /\ Cardinality(Carrying(<<"port", "b">>)) = 2
    /\ FirstAppearance(<<"port", "b">>) = 0
    /\ SeriesEnd = 2
    /\ ReportedTalkers = {<<"destination", "a">>}

-----------------------------------------------------------------------------
\* Where change points are emitted.

\* The change points ChangePointDetector.process returned.
ChangePoints ==
    LET items == SelectSeq(unit.out.partial, LAMBDA item : item[1] = "changePoints")
    IN IF items = << >> THEN << >> ELSE items[1][2]

\* The sample index (0-based) of a change point, from its timestamp.
IndexOf(point) ==
    CHOOSE i \in 0..(Len(unit.request.metrics) - 1) :
        _isoformat(unit.request.metrics[i + 1].timestamp) = point.timestamp

WindowSteps == unit.out.ctx.change_point_diagnostics[1].windowSteps[1]

\* max(1, int(round(minGapSeconds / interval))) for samples one second apart
MinGapSteps == Max(1, unit.self.settings.minGapSeconds)

\* C22: every change point is at a sample index in
\* [windowSteps, len - windowSteps) with |score| >= thresholdStdDevs, and two
\* change points of the same metric are at least minGapSteps apart.
C22_ChangePointsInRangeAndSpaced ==
    Ran("changepoint") =>
        /\ \A i \in DOMAIN ChangePoints :
              /\ IndexOf(ChangePoints[i]) >= WindowSteps
              /\ IndexOf(ChangePoints[i]) < Len(unit.request.metrics) - WindowSteps
              /\ RoundedAtLeast(ChangePoints[i].score, unit.self.settings.thresholdStdDevs)
        /\ \A i, j \in DOMAIN ChangePoints :
              i < j => IndexOf(ChangePoints[j]) - IndexOf(ChangePoints[i]) >= MinGapSteps

\* Two change points exactly minGapSteps = 2 apart, the first at index
\* windowSteps and the second at the last index of the range.
C22_Witness ==
    /\ Ran("changepoint")
    /\ unit.self.settings.minGapSeconds = 2
    /\ Len(ChangePoints) = 2
    /\ IndexOf(ChangePoints[1]) = WindowSteps
    /\ IndexOf(ChangePoints[2]) = Len(unit.request.metrics) - WindowSteps - 1
    /\ IndexOf(ChangePoints[2]) - IndexOf(ChangePoints[1]) = 2

-----------------------------------------------------------------------------
\* How large a change-point score can be.

\* abs(z) <= bound on the float the quotient was rounded to.
RoundedAtMost(z, bound) ==
    \/ z.num * z.num < bound * bound * z.den2
    \/ z.num * z.num = bound * bound * z.den2 /\ z.ulps <= 0

\* C23 as stated: every score has |score| <= 2, the sentinel branch is never
\* taken, and no change point is emitted when thresholdStdDevs > 2.
C23_ScoreAtMostTwo ==
    Ran("changepoint") =>
        /\ \A i \in DOMAIN ChangePoints :
              ~ChangePoints[i].score.sentinel /\ RoundedAtMost(ChangePoints[i].score, 2)
        /\ unit.self.settings.thresholdStdDevs > 2 => ChangePoints = << >>

\* C23: the exact quotient diff / std_dev is at most 2 in magnitude (the
\* float score is that quotient rounded, so it can exceed 2 in its last
\* place), the sentinel branch is never taken, and no change point is emitted
\* when thresholdStdDevs is 3 or more.
C23_ExactScoreAtMostTwo ==
    Ran("changepoint") =>
        /\ \A i \in DOMAIN ChangePoints :
              /\ ~ChangePoints[i].score.sentinel
              /\ ChangePoints[i].score.num * ChangePoints[i].score.num
                     <= 4 * ChangePoints[i].score.den2
        /\ unit.self.settings.thresholdStdDevs >= 3 => ChangePoints = << >>

\* A score of exactly 2, rounded up in its last place, is emitted.
C23_Witness ==
    /\ Ran("changepoint")
    /\ unit.err = 1
    /\ \E i \in DOMAIN ChangePoints :
          ChangePoints[i].score.num * ChangePoints[i].score.num = 4 * ChangePoints[i].score.den2

-----------------------------------------------------------------------------
\* A clean step under the default settings.

\* a / b - c / d = e / f, for fractions kept as [num, den]
IsDifference(e, a, c) == e.num * a.den * c.den = (a.num * c.den - c.num * a.den) * e.den

\* The call was made with the default settings (on a series of one step, at
\* least windowSteps samples from both ends), and the step goes up.
DefaultStep == Ran("changepoint") /\ unit.self.settings = ChangePointDefaults

StepUp ==
    unit.request.metrics[1].bytesPerSecond
        < unit.request.metrics[Len(unit.request.metrics)].bytesPerSecond

\* C24: with default settings, a series constant at one level and then at a
\* higher (lower) one yields at least one bytesPerSecond change point whose
\* direction is "increase" ("decrease"), and meanDelta = afterMean - beforeMean.
C24_StepIsDetected ==
    DefaultStep =>
        /\ \E i \in DOMAIN ChangePoints :
              /\ ChangePoints[i].metric = "bytesPerSecond"
              /\ ChangePoints[i].direction = IF StepUp THEN "increase" ELSE "decrease"
        /\ \A i \in DOMAIN ChangePoints :
              IsDifference(ChangePoints[i].meanDelta, ChangePoints[i].afterMean,
                           ChangePoints[i].beforeMean)

-----------------------------------------------------------------------------
\* What an emitted multivariate score looks like.

\* The scores MultivariateDetector.process returned.
JointDetections ==
    LET items == SelectSeq(unit.out.partial, LAMBDA item : item[1] = "multivariateScores")
    IN IF items = << >> THEN << >> ELSE items[1][2]

\* The sample index (0-based) of a detection, from its timestamp.
SampleOf(detection) ==
    CHOOSE i \in 0..(Len(unit.request.metrics) - 1) :
        _isoformat(unit.request.metrics[i + 1].timestamp) = detection.timestamp

\* How often a magnitude occurs among the terms.
Occurrences(terms, x) == Cardinality({k \in DOMAIN terms : terms[k] = x})

\* The weights part / total add up to 1: every weight is over the same total,
\* and the parts are that total's terms (terms of zero aside).
SumToOne(contributions) ==
    LET parts == [i \in DOMAIN contributions |-> contributions[i].weight.part]
        total == contributions[1].weight.total
    IN /\ \A i \in DOMAIN contributions : contributions[i].weight.total = total
       /\ \A x \in Range(parts) \cup Range(total) :
             x.num # 0 => Occurrences(parts, x) = Occurrences(total, x)

\* C25: every emitted multivariate score is for a sample index >= windowSteps
\* and has joint score >= threshold; its contributions have non-negative
\* weights that sum to 1 and are listed in non-increasing |zScore| order.
C25_JointScoresWellFormed ==
    Ran("multivariate") =>
        \A d \in DOMAIN JointDetections :
            LET detection == JointDetections[d]
                contributions == detection.contributions
            IN /\ SampleOf(detection) >= unit.out.ctx.multivariate_diagnostics[1].windowSteps[1]
               /\ detection.score.num
                     >= unit.self.settings.threshold * unit.self.settings.threshold
                           * detection.score.den
               /\ contributions # << >>
               /\ \A i \in DOMAIN contributions :
                     contributions[i].weight.part.num >= 0
               /\ SumToOne(contributions)
               /\ \A i, j \in DOMAIN contributions :
                     i < j => ~Larger(contributions[j].zScore, contributions[i].zScore)

\* A score with two contributions of different magnitude, the second
\* feature's first.
C25_Witness ==
    /\ Ran("multivariate")
    /\ \E d \in DOMAIN JointDetections :
          /\ Len(JointDetections[d].contributions) = 2
          /\ JointDetections[d].contributions[1].feature = "packetsPerSecond"
          /\ Larger(JointDetections[d].contributions[1].zScore,
                    JointDetections[d].contributions[2].zScore)

(***************************************************************************)
(* The untagged pass of the baseline detector                              *)
(***************************************************************************)

\* The positions (1-based) of the anomalies the pass returned.
EmittedAt == {unit.out[k].id[3] : k \in DOMAIN unit.out}

\* The window before position idx: at most window_count values, the value at
\* idx left out.
Preceding(idx) ==
    [k \in 1..(idx - Max(1, idx - unit.window_count)) |->
        unit.series[Max(1, idx - unit.window_count) + k - 1]]

\* The scale over the window is positive: the values differ (standard
\* deviation), or more than half of them lie off the median (mad).
ScaleIsPositive(window) ==
    IF unit.params.algorithm = "mad"
    THEN Mad4(window) > 0
    ELSE \E i, j \in DOMAIN window : window[i] # window[j]

\* |value - location| / scale >= zThreshold.  In zscore mode the location is
\* SumSeq / n and the scale sqrt(VarN2) / n; in mad mode the location is
\* Median2 / 2 and the scale 1.4826 * Mad4 / 4.
FarFromLocation(value, window) ==
    IF unit.params.algorithm = "mad"
    THEN 20000 * Abs(2 * value - Median2(window))
             >= unit.params.zThreshold * 14826 * Mad4(window)
    ELSE (Len(window) * value - SumSeq(window)) * (Len(window) * value - SumSeq(window))
             >= unit.params.zThreshold * unit.params.zThreshold * VarN2(window)

\* C26: in zscore and mad mode no untagged anomaly is emitted for the first
\* three samples, none for a constant series, and for a later sample one is
\* emitted iff the scale over the preceding window (at most windowCount
\* values) is positive and |value - location| / scale >= zThreshold.
C26_AnomalyIffFarFromWindow ==
    (Ran("detect") /\ unit.params.algorithm \in {"zscore", "mad"}) =>
        /\ EmittedAt \cap {1, 2, 3} = {}
        /\ Cardinality(Range(unit.series)) <= 1 => unit.out = << >>
        /\ \A idx \in 4..Len(unit.series) :
              idx \in EmittedAt <=>
                  /\ ScaleIsPositive(Preceding(idx))
                  /\ FarFromLocation(unit.series[idx], Preceding(idx))
        /\ Len(unit.out) = Cardinality(EmittedAt)

\* In mad mode with windows of three and zThreshold 1, the series
\* 0 1 3 0 1 3: the fifth sample, 1, is the median of 1 3 0 and is passed
\* over; the sixth, 3, follows 3 0 1 (median 1, mad 1) at 2 / 1.4826 and is
\* emitted.
C26_Witness ==
    /\ Ran("detect")
    /\ unit.params.algorithm = "mad"
    /\ unit.window_count = 3
    /\ unit.params.zThreshold = 1
    /\ unit.series = <<0, 1, 3, 0, 1, 3>>
    /\ 6 \in EmittedAt
    /\ 5 \notin EmittedAt

(***************************************************************************)
(* The tag pass of the baseline detector                                   *)
(***************************************************************************)

\* The values of the tag in the samples taken so far, in arrival order.
RECURSIVE Arrived(_, _)
Arrived(key, idx) ==
    IF idx = 0 THEN << >>
    ELSE Arrived(key, idx - 1)
         \o [k \in DOMAIN SelectSeq(unit.tag_metrics_list[idx],
                                    LAMBDA e : <<e.tagType, e.tagValue>> = key) |->
                SelectSeq(unit.tag_metrics_list[idx],
                          LAMBDA e : <<e.tagType, e.tagValue>> = key)[k].bytes]

\* The last `count` values of a sequence (all of it when shorter).
Latest(values, count) == SubSeq(values, Max(1, Len(values) - count + 1), Len(values))

\* C27 as stated: for every emitted anomaly, of the untagged pass under each
\* algorithm and of the tag pass, direction is "spike" exactly when
\* zScore > 0 and "drop" exactly when zScore < 0.
C27_DirectionAgreesWithSign ==
    (unit.op = "tags" \/ Ran("detect")) =>
        \A k \in DOMAIN unit.out :
            /\ unit.out[k].direction = "spike" <=> unit.out[k].zScore.num > 0
            /\ unit.out[k].direction = "drop" <=> unit.out[k].zScore.num < 0

\* C28: during the tag pass the history of each (tagType, tagValue) holds at
\* most max(4 * windowCount, windowCount + 1) values, which are the tag's
\* most recent values in arrival order, and no tag anomaly is emitted for a
\* tag before it has been observed in windowCount samples.
C28_TagHistoryCappedAndWarm ==
    unit.op = "tags" =>
        /\ \A key \in DOMAIN unit.tag_history :
              /\ Len(unit.tag_history[key])
                     <= Max(4 * unit.window_count, unit.window_count + 1)
              /\ unit.tag_history[key]
                     = Latest(Arrived(key, Len(unit.tag_metrics_list)),
                              Max(4 * unit.window_count, unit.window_count + 1))
        /\ \A key \in {<<"destination", "a">>, <<"port", "b">>} :
              Arrived(key, Len(unit.tag_metrics_list)) # << >> => key \in DOMAIN unit.tag_history
        /\ \A k \in DOMAIN unit.out :
              Len(Arrived(<<unit.out[k].tagType[1], unit.out[k].tagValue[1]>>,
                          unit.out[k].id[3])) >= unit.window_count

\* Thirteen samples were taken: destination "a" came in each and its history
\* holds the latest twelve values; port "b" came three times and its third
\* value, in the twelfth sample, was reported.
C28_Witness ==
    /\ unit.op = "tags"
    /\ Len(unit.tag_metrics_list) = 13
    /\ Len(Arrived(<<"destination", "a">>, 13)) = 13
    /\ Len(unit.tag_history[<<"destination", "a">>]) = 12
    /\ unit.tag_history[<<"port", "b">>] = <<4, 8, 12>>
    /\ \E k \in DOMAIN unit.out : unit.out[k].id = <<"port", "b", 12>>

(***************************************************************************)
(* The payload summary of the baseline detector                            *)
(***************************************************************************)

\* The payloadSummary of the response, as a dict; no response (process
\* raised) has none.
PayloadSummary ==
    LET items == SelectSeq(unit.out.partial, LAMBDA item : item[1] = "payloadSummary")
    IN IF items = << >> THEN EmptyDict
       ELSE [key \in {items[1][2][k][1] : k \in DOMAIN items[1][2]} |->
                (CHOOSE pair \in Range(items[1][2]) : pair[1] = key)[2]]

HasPayloadSummary ==
    \E k \in DOMAIN unit.out.partial : unit.out.partial[k][1] = "payloadSummary"

InspectionEnabled ==
    /\ "payloadConfig" \in DOMAIN unit.request
    /\ unit.request.payloadConfig.payloadInspectionEnabled

\* The packets whose info matches the marker of a counter.
Matching(counter) ==
    {k \in DOMAIN unit.request.packets :
        LET info == unit.request.packets[k].info
        IN CASE counter = "tlsClientHello" -> info = "TLS Client Hello"
             [] counter = "tlsServerHello" -> info = "TLS Server Hello"
             [] counter = "httpRequests" -> info = "GET / HTTP/1.1"}

\* The sum of max(0, length) over the packets, a length that is no number
\* counting nothing.
RECURSIVE ObservedBytes(_)
ObservedBytes(k) ==
    IF k = 0 THEN 0
    ELSE ObservedBytes(k - 1)
         + (IF unit.request.packets[k].length = BadNumber THEN 0
            ELSE Max(0, unit.request.packets[k].length))

\* The four counters of the claim.
Counter(key) ==
    IF key = "observedPayloadBytes" THEN ObservedBytes(Len(unit.request.packets))
    ELSE Cardinality(Matching(key))

CounterKeys == {"tlsClientHello", "tlsServerHello", "httpRequests", "observedPayloadBytes"}

\* C29 as stated: payloadSummary is in the response iff payload inspection is
\* enabled and some counter is positive; it then holds exactly the positive
\* counters, the three counts being the numbers of packets whose info matches
\* and observedPayloadBytes the sum of max(0, length).
C29_PayloadSummaryIffCounted ==
    Ran("payload") =>
        /\ HasPayloadSummary <=> (InspectionEnabled /\ \E key \in CounterKeys : Counter(key) > 0)
        /\ HasPayloadSummary =>
              /\ DOMAIN PayloadSummary = {key \in CounterKeys : Counter(key) > 0}
              /\ \A key \in DOMAIN PayloadSummary : PayloadSummary[key] = Counter(key)

(***************************************************************************)
(* The alert of the baseline detector                                      *)
(***************************************************************************)

\* The effective scoreThreshold of a request, in hundredths.
EffectiveThreshold(request) == Get(AlertsConfig(request), "scoreThreshold", 90)

\* C30: whenever the baseline detector succeeds and the effective
\* scoreThreshold is at most 1.0 (the default 0.9 included), the response has
\* an alert event for detector "legacy", and so an alerts section under
\* advancedDetection, whether or not any anomaly was found.
C30_BaselineAlwaysAlerts ==
    \A t \in Threads : Done(t) =>
        \A i \in DOMAIN TraceOf(t, "legacy") :
            (~TraceOf(t, "legacy")[i].raised /\ EffectiveThreshold(calls[t].request) <= 100) =>
                /\ "alerts" \in DOMAIN Advanced(t)
                /\ \E k \in DOMAIN AlertEvents(t) :
                      /\ AlertEvents(t)[k].detector = "legacy"
                      /\ AlertEvents(t)[k].score = ScoreScale

\* A call without any alert configuration whose baseline detector succeeded
\* and found no anomaly: the response has the alert event of "legacy", a
\* warning against the default threshold.
C30_Witness ==
    \E t \in Threads :
        /\ Done(t)
        /\ calls[t].request.controlsAlerts = None
        /\ calls[t].request.alerts = None
        /\ TraceOf(t, "legacy") # << >>
        /\ ~TraceOf(t, "legacy")[1].raised
        /\ calls[t].response["anomalies"] = << >>
        /\ \E k \in DOMAIN AlertEvents(t) :
              /\ AlertEvents(t)[k].detector = "legacy"
              /\ AlertEvents(t)[k].severity = "warning"
              /\ AlertEvents(t)[k].message = <<"legacy", ScoreScale, 90>>

====
